---------------------------- MODULE Spec2Model ----------------------------
(***************************************************************************)
(* ObsidianAnkiDark: the card-extraction pipeline and the reconciliation   *)
(* of a document's cards with the Anki store (parser.ts / ankiconnect.ts). *)
(*                                                                         *)
(* Text is modelled as a sequence of one-character strings, a document as  *)
(* the sequence of its lines (the editor's view; getValue() joins them     *)
(* with "\n", content.split(/\r?\n/) gives them back).                     *)
(***************************************************************************)
EXTENDS Integers, Sequences, FiniteSets, TLC

(***************************************************************************)
(* Bounds of the model.                                                    *)
(***************************************************************************)
\* longest card body given to splitIntoFields
MaxBody == 6

(***************************************************************************)
(* JavaScript string primitives used by the parser.                        *)
(***************************************************************************)
IsWS(c) == c \in {" ", "\t", "\n", "\r"}

IsDigit(c) == c \in {"0", "1", "2", "3", "4", "5", "6", "7", "8", "9"}

RECURSIVE TrimLeft(_)
TrimLeft(s) == IF s # <<>> /\ IsWS(Head(s)) THEN TrimLeft(Tail(s)) ELSE s

RECURSIVE TrimRight(_)
TrimRight(s) ==
    IF s # <<>> /\ IsWS(s[Len(s)]) THEN TrimRight(SubSeq(s, 1, Len(s) - 1)) ELSE s

\* String.prototype.trim
trim(s) == TrimRight(TrimLeft(s))

\* String.prototype.startsWith / endsWith / includes
startsWith(s, p) == Len(s) >= Len(p) /\ SubSeq(s, 1, Len(p)) = p

endsWith(s, p) == Len(s) >= Len(p) /\ SubSeq(s, Len(s) - Len(p) + 1, Len(s)) = p

includes(s, p) == \E i \in 1..(Len(s) - Len(p) + 1) : SubSeq(s, i, i + Len(p) - 1) = p

\* Array.prototype.join("\n")
RECURSIVE joinLines(_)
joinLines(ls) ==
    IF ls = <<>> THEN <<>>
    ELSE IF Len(ls) = 1 THEN ls[1]
    ELSE ls[1] \o <<"\n">> \o joinLines(Tail(ls))

\* String.prototype.split(/\r?\n/) (the model's texts hold no "\r")
RECURSIVE splitLinesFrom(_, _, _)
splitLinesFrom(s, i, cur) ==
    IF i > Len(s) THEN <<cur>>
    ELSE IF s[i] = "\n" THEN <<cur>> \o splitLinesFrom(s, i + 1, <<>>)
    ELSE splitLinesFrom(s, i + 1, Append(cur, s[i]))

splitLines(s) == splitLinesFrom(s, 1, <<>>)

(***************************************************************************)
(* splitIntoFields: the brace-depth-aware field splitter.                  *)
(***************************************************************************)
\* cardContent.slice(i).match(/^(:+)/g)?.[0]?.length || 0, i 1-based
RECURSIVE colonCount(_, _)
colonCount(s, i) == IF i <= Len(s) /\ s[i] = ":" THEN 1 + colonCount(s, i + 1) ELSE 0

\* the for loop of splitIntoFields and the trailing push of currentPart
RECURSIVE splitLoop(_, _, _, _, _, _)
splitLoop(s, i, fields, currentPart, inCurlyBraces, reverseCard) ==
    IF i > Len(s)
    THEN [fields |-> IF currentPart # <<>> THEN Append(fields, currentPart) ELSE fields,
          reverseCard |-> reverseCard]
    ELSE IF s[i] = ":" /\ i + 1 <= Len(s) /\ s[i + 1] = ":" /\ inCurlyBraces = 0
    THEN splitLoop(s, i + colonCount(s, i), Append(fields, currentPart), <<>>,
                   inCurlyBraces, colonCount(s, i) = 3)
    ELSE splitLoop(s, i + 1, fields, Append(currentPart, s[i]),
                   IF s[i] = "{" THEN inCurlyBraces + 1
                   ELSE IF s[i] = "}" THEN inCurlyBraces - 1
                   ELSE inCurlyBraces,
                   reverseCard)

\* the loop as it would be if a separator consumed two colons only
RECURSIVE splitLoopTwoColons(_, _, _, _, _, _)
splitLoopTwoColons(s, i, fields, currentPart, inCurlyBraces, reverseCard) ==
    IF i > Len(s)
    THEN [fields |-> IF currentPart # <<>> THEN Append(fields, currentPart) ELSE fields,
          reverseCard |-> reverseCard]
    ELSE IF s[i] = ":" /\ i + 1 <= Len(s) /\ s[i + 1] = ":" /\ inCurlyBraces = 0
    THEN splitLoopTwoColons(s, i + 2, Append(fields, currentPart), <<>>,
                            inCurlyBraces, colonCount(s, i) = 3)
    ELSE splitLoopTwoColons(s, i + 1, fields, Append(currentPart, s[i]),
                            IF s[i] = "{" THEN inCurlyBraces + 1
                            ELSE IF s[i] = "}" THEN inCurlyBraces - 1
                            ELSE inCurlyBraces,
                            reverseCard)

\* splitIntoFields with that loop: C29_OneBoundaryPerRun tells it from splitIntoFields
splitIntoFieldsTwoColons(cardContent) ==
    LET r == splitLoopTwoColons(cardContent, 1, <<>>, <<>>, 0, FALSE)
    IN  [fields |-> [k \in DOMAIN r.fields |-> trim(r.fields[k])],
         reverseCard |-> r.reverseCard]

splitIntoFields(cardContent) ==
    LET r == splitLoop(cardContent, 1, <<>>, <<>>, 0, FALSE)
    IN  [fields |-> [k \in DOMAIN r.fields |-> trim(r.fields[k])],
         reverseCard |-> r.reverseCard]

(***************************************************************************)
(* Numbers and their decimal text: Number(digits), n.toString().           *)
(***************************************************************************)
\* the value of `undefined` / `null` where the code expects a number
Undefined == -1

DigitChars == <<"0", "1", "2", "3", "4", "5", "6", "7", "8", "9">>

DigitValue(c) == CHOOSE d \in 0..9 : DigitChars[d + 1] = c

RECURSIVE Number(_)
Number(s) ==
    IF s = <<>> THEN 0
    ELSE 10 * Number(SubSeq(s, 1, Len(s) - 1)) + DigitValue(s[Len(s)])

RECURSIVE toString(_)
toString(n) ==
    IF n < 10 THEN <<DigitChars[n + 1]>>
    ELSE toString(n \div 10) \o <<DigitChars[(n % 10) + 1]>>

\* the length of the run of digits starting at character i (\d+, greedy)
RECURSIVE digitRun(_, _)
digitRun(s, i) == IF i <= Len(s) /\ IsDigit(s[i]) THEN 1 + digitRun(s, i + 1) ELSE 0

\* String.prototype.replace(pattern, replacement) with a string pattern: the
\* first occurrence only
replaceFirst(s, pat, rep) ==
    IF ~includes(s, pat) THEN s
    ELSE LET i == CHOOSE k \in 1..(Len(s) - Len(pat) + 1) :
                      /\ SubSeq(s, k, k + Len(pat) - 1) = pat
                      /\ \A j \in 1..(k - 1) : SubSeq(s, j, j + Len(pat) - 1) # pat
         IN  SubSeq(s, 1, i - 1) \o rep \o SubSeq(s, i + Len(pat), Len(s))

(***************************************************************************)
(* getFlashcardBodies: the block segmenter.  Line numbers are 0-based.     *)
(***************************************************************************)
\* the backtick character (TLA+ strings cannot hold it)
Backtick == "BACKTICK"

Fence == <<Backtick, Backtick, Backtick>>

MathFence == <<"$", "$">>

\* /^\d+\.\s/.test(t)
isNumberedItem(t) ==
    LET n == digitRun(t, 1)
    IN  n >= 1 /\ n + 2 <= Len(t) /\ t[n + 1] = "." /\ IsWS(t[n + 2])

\* the lookahead of lines 453-458 on the trimmed next line
isContinuationLine(t) ==
    \/ startsWith(t, <<":", ":">>)
    \/ startsWith(t, <<"^">>)
    \/ startsWith(t, <<"-", " ">>)
    \/ isNumberedItem(t)

\* the validity pre-filter of line 465
looksLikeCard(cardBody) ==
    \/ includes(cardBody, <<"{">>)
    \/ includes(cardBody, <<"}">>)
    \/ includes(cardBody, <<"=", "=">>)
    \/ includes(cardBody, <<":", ":">>)

\* line 444 without the test: the start of the block is never moved
blockStartStale(currentCard, i, startLine) == startLine

\* line 444: a line pushed on an empty buffer starts the block
blockStart(currentCard, i, startLine) == IF currentCard = <<>> THEN i ELSE startLine

\* lines 452-459 without the two toggles: only the colon and the next line count
blockContinuesNoFence(lines, i, inCodeBlock, inLatexBlock) ==
    \/ endsWith(trim(lines[i + 1]), <<":">>)
    \/ i + 1 < Len(lines) /\ isContinuationLine(trim(lines[i + 2]))

\* lines 452-459 without the look at the next line
blockContinuesNoLookahead(lines, i, inCodeBlock, inLatexBlock) ==
    \/ endsWith(trim(lines[i + 1]), <<":">>)
    \/ inCodeBlock
    \/ inLatexBlock

\* lines 452-459: the block goes on after line i (0-based), the toggles
\* being those after line i
blockContinues(lines, i, inCodeBlock, inLatexBlock) ==
    \/ endsWith(trim(lines[i + 1]), <<":">>)
    \/ inCodeBlock
    \/ inLatexBlock
    \/ i + 1 < Len(lines) /\ isContinuationLine(trim(lines[i + 2]))

\* the for loop of getFlashcardBodies, i the 0-based index of the current line
RECURSIVE bodiesLoop(_, _, _, _, _, _, _)
bodiesLoop(lines, i, currentCard, startLine, inCodeBlock, inLatexBlock, flashcardBodies) ==
    IF i >= Len(lines) THEN flashcardBodies
    ELSE
    LET line  == lines[i + 1]
        start == blockStart(currentCard, i, startLine)
        card  == Append(currentCard, line)
        code  == IF startsWith(trim(line), Fence) THEN ~inCodeBlock ELSE inCodeBlock
        latex == IF ~startsWith(trim(line), Fence) /\ startsWith(trim(line), MathFence)
                 THEN ~inLatexBlock ELSE inLatexBlock
    IN  IF blockContinues(lines, i, code, latex)
        THEN bodiesLoop(lines, i + 1, card, start, code, latex, flashcardBodies)
        ELSE IF ~looksLikeCard(joinLines(card))
        THEN bodiesLoop(lines, i + 1, <<>>, start, code, latex, flashcardBodies)
        ELSE bodiesLoop(lines, i + 1, <<>>, start, code, latex,
                        Append(flashcardBodies,
                               [body |-> joinLines(card), startLine |-> start, endLine |-> i]))

getFlashcardBodies(content) ==
    bodiesLoop(splitLines(content), 0, <<>>, 0, FALSE, FALSE, <<>>)

(***************************************************************************)
(* makeFlashcards: the card builder.                                       *)
(***************************************************************************)
\* /(?:\s|\n)\^(\d+)(?:\s|$)/ matches at character p
idMatchAt(s, p) ==
    /\ p >= 1
    /\ p + 2 <= Len(s)
    /\ IsWS(s[p])
    /\ s[p + 1] = "^"
    /\ digitRun(s, p + 2) >= 1
    /\ \/ p + 2 + digitRun(s, p + 2) > Len(s)
       \/ IsWS(s[p + 2 + digitRun(s, p + 2)])

\* card.match(...): the leftmost match, 0 when there is none
idMatchIndex(s) ==
    IF \E p \in 1..Len(s) : idMatchAt(s, p)
    THEN CHOOSE p \in 1..Len(s) : idMatchAt(s, p) /\ \A q \in 1..(p - 1) : ~idMatchAt(s, q)
    ELSE 0

\* idMatch[1]: the digits of the match at p
idMatchDigits(s, p) == SubSeq(s, p + 2, p + 1 + digitRun(s, p + 2))

\* the length of the whole match at p: blank, ^, digits and the blank after them
idMatchLength(s, p) ==
    2 + digitRun(s, p + 2) + (IF p + 2 + digitRun(s, p + 2) <= Len(s) THEN 1 ELSE 0)

\* card.replace(/(?:\s|\n)\^(\d+)(?:\s|$)/, '')
removeIdMatch(s) ==
    LET p == idMatchIndex(s)
    IN  IF p = 0 THEN s
        ELSE SubSeq(s, 1, p - 1) \o SubSeq(s, p + idMatchLength(s, p), Len(s))

Letters ==
    {"a", "b", "c", "d", "e", "f", "g", "h", "i", "j", "k", "l", "m",
     "n", "o", "p", "q", "r", "s", "t", "u", "v", "w", "x", "y", "z",
     "A", "B", "C", "D", "E", "F", "G", "H", "I", "J", "K", "L", "M",
     "N", "O", "P", "Q", "R", "S", "T", "U", "V", "W", "X", "Y", "Z"}

\* [\w-]
IsTagChar(c) == c \in Letters \/ IsDigit(c) \/ c = "_" \/ c = "-"

RECURSIVE tagRun(_, _)
tagRun(s, i) == IF i <= Len(s) /\ IsTagChar(s[i]) THEN 1 + tagRun(s, i + 1) ELSE 0

\* card.match(/#[\w-]+/g): the tags in text order
RECURSIVE tagMatchesFrom(_, _)
tagMatchesFrom(s, i) ==
    IF i > Len(s) THEN <<>>
    ELSE IF s[i] = "#" /\ tagRun(s, i + 1) >= 1
    THEN <<SubSeq(s, i, i + tagRun(s, i + 1))>> \o tagMatchesFrom(s, i + 1 + tagRun(s, i + 1))
    ELSE tagMatchesFrom(s, i + 1)

\* card.replace(/#[\w-]+/g, '')
RECURSIVE removeTagsFrom(_, _)
removeTagsFrom(s, i) ==
    IF i > Len(s) THEN <<>>
    ELSE IF s[i] = "#" /\ tagRun(s, i + 1) >= 1
    THEN removeTagsFrom(s, i + 1 + tagRun(s, i + 1))
    ELSE <<s[i]>> \o removeTagsFrom(s, i + 1)

\* [^\[\]\r\n]+ from character i
RECURSIVE linkRun(_, _)
linkRun(s, i) ==
    IF i <= Len(s) /\ s[i] \notin {"[", "]", "\r", "\n"} THEN 1 + linkRun(s, i + 1) ELSE 0

\* /\[\[(?<!!\[\[)([^\[\]\r\n]+)\]\]/ matches at character i
linkMatchAt(s, i) ==
    /\ i + 1 <= Len(s)
    /\ s[i] = "[" /\ s[i + 1] = "["
    /\ i = 1 \/ s[i - 1] # "!"
    /\ linkRun(s, i + 2) >= 1
    /\ i + 3 + linkRun(s, i + 2) <= Len(s)
    /\ s[i + 2 + linkRun(s, i + 2)] = "]"
    /\ s[i + 3 + linkRun(s, i + 2)] = "]"

\* the link texts pushed to linkTags, in text order
RECURSIVE linkTagsFrom(_, _)
linkTagsFrom(s, i) ==
    IF i > Len(s) THEN <<>>
    ELSE IF linkMatchAt(s, i)
    THEN <<SubSeq(s, i + 2, i + 1 + linkRun(s, i + 2))>>
         \o linkTagsFrom(s, i + 4 + linkRun(s, i + 2))
    ELSE linkTagsFrom(s, i + 1)

\* the card with every [[link]] replaced by its text
RECURSIVE replaceLinksFrom(_, _)
replaceLinksFrom(s, i) ==
    IF i > Len(s) THEN <<>>
    ELSE IF linkMatchAt(s, i)
    THEN SubSeq(s, i + 2, i + 1 + linkRun(s, i + 2))
         \o replaceLinksFrom(s, i + 4 + linkRun(s, i + 2))
    ELSE <<s[i]>> \o replaceLinksFrom(s, i + 1)

\* result.trim().replace(/\r?\n/g, '<br>')
RECURSIVE newlinesToBr(_)
newlinesToBr(s) ==
    IF s = <<>> THEN <<>>
    ELSE IF Head(s) = "\n" THEN <<"<", "b", "r", ">">> \o newlinesToBr(Tail(s))
    ELSE <<Head(s)>> \o newlinesToBr(Tail(s))

(***************************************************************************)
(* convertToAnkiCloze: the cloze normalizer, three replace passes.         *)
(***************************************************************************)
\* Math.min
Min(a, b) == IF a <= b THEN a ELSE b

\* content.slice(from - 1, to) of 1-based characters from..to, empty when the
\* range is
slice(s, from, to) == IF from > to \/ from > Len(s) THEN <<>> ELSE SubSeq(s, from, Min(to, Len(s)))

\* the length of the run of character ch from character i
RECURSIVE charRun(_, _, _)
charRun(s, i, ch) == IF i <= Len(s) /\ s[i] = ch THEN 1 + charRun(s, i + 1, ch) ELSE 0

\* [^\{\}\n\r:]
IsClozeChar(c) == c \notin {"{", "}", "\n", "\r", ":"}

\* [^\{\}\n\r:]+ from character i: the length of the run
RECURSIVE clozeRun(_, _)
clozeRun(s, i) == IF i <= Len(s) /\ IsClozeChar(s[i]) THEN 1 + clozeRun(s, i + 1) ELSE 0

\* canonicalAhead as it would be without the lookahead (?!c\d+::):
\* C14_PlainCanonicalUnchanged tells it from canonicalAhead
canonicalAheadNever(s, q) == FALSE

\* what (?!c\d+::) refuses at character q
canonicalAhead(s, q) ==
    /\ q <= Len(s) /\ s[q] = "c"
    /\ digitRun(s, q + 1) >= 1
    /\ charRun(s, q + 1 + digitRun(s, q + 1), ":") >= 2

\* braceClozeAt as it would be if no more than two braces counted on either
\* side: C13_TripleBracesGiveGroupThree tells it from braceClozeAt
braceClozeAtCapped(s, p) ==
    LET open     == charRun(s, p, "{")
        q        == p + open
        r        == q + clozeRun(s, q)
        h        == IF charRun(s, r, ":") >= 2 THEN clozeRun(s, r + 2) ELSE 0
        withHint == h >= 1 /\ charRun(s, r + 2 + h, "}") >= 1
        e        == IF withHint THEN r + 2 + h ELSE r
        close    == charRun(s, e, "}")
    IN  [matches    |-> open >= 1 /\ ~canonicalAhead(s, q) /\ r > q /\ close >= 1,
         openCount  |-> Min(open, 2),
         closeCount |-> Min(close, 2),
         cloze      |-> slice(s, q, r - 1),
         hint       |-> IF withHint THEN slice(s, r + 2, r + 1 + h) ELSE <<>>,
         end        |-> e + close]

\* /(\{+)(?!c\d+::)([^\{\}\n\r:]+)(?:::([^\{\}\n\r:]+))?(\}+)/ tried at
\* character p.  Each greedy group can only match with its whole run: after
\* fewer opening braces the text would have to start with a brace, after a
\* shorter text or hint neither :: nor a closing brace can follow.
braceClozeAt(s, p) ==
    LET open     == charRun(s, p, "{")
        q        == p + open
        r        == q + clozeRun(s, q)
        h        == IF charRun(s, r, ":") >= 2 THEN clozeRun(s, r + 2) ELSE 0
        withHint == h >= 1 /\ charRun(s, r + 2 + h, "}") >= 1
        e        == IF withHint THEN r + 2 + h ELSE r
        close    == charRun(s, e, "}")
    IN  [matches    |-> open >= 1 /\ ~canonicalAhead(s, q) /\ r > q /\ close >= 1,
         openCount  |-> open,
         closeCount |-> close,
         cloze      |-> slice(s, q, r - 1),
         hint       |-> IF withHint THEN slice(s, r + 2, r + 1 + h) ELSE <<>>,
         end        |-> e + close]

\* `{{c${num}::${cloze}::${hint}}}` or `{{c${num}::${cloze}}}`, num a text
canonicalCloze(num, cloze, hint) ==
    <<"{", "{", "c">> \o num \o <<":", ":">> \o cloze
        \o (IF hint # <<>> THEN <<":", ":">> \o hint ELSE <<>>) \o <<"}", "}">>

\* replaceBraceClozes as it would be if the opening braces alone gave the
\* group number: C12_PlainBraceRunGroupIsMin tells it from replaceBraceClozes
RECURSIVE replaceBraceClozesByOpen(_, _, _)
replaceBraceClozesByOpen(s, p, insideLatex) ==
    IF p > Len(s) THEN <<>>
    ELSE LET m == braceClozeAt(s, p)
         IN  IF m.matches
             THEN (IF insideLatex /\ m.openCount = 1 THEN slice(s, p, m.end - 1)
                   ELSE canonicalCloze(toString(m.openCount), m.cloze, m.hint))
                  \o replaceBraceClozesByOpen(s, m.end, insideLatex)
             ELSE <<s[p]>> \o replaceBraceClozesByOpen(s, p + 1, insideLatex)

\* the first replace (lines 692-700) from character p on
RECURSIVE replaceBraceClozes(_, _, _)
replaceBraceClozes(s, p, insideLatex) ==
    IF p > Len(s) THEN <<>>
    ELSE LET m        == braceClozeAt(s, p)
             clozeNum == Min(m.openCount, m.closeCount)
         IN  IF m.matches
             THEN (IF insideLatex /\ clozeNum = 1 THEN slice(s, p, m.end - 1)
                   ELSE canonicalCloze(toString(clozeNum), m.cloze, m.hint))
                  \o replaceBraceClozes(s, m.end, insideLatex)
             ELSE <<s[p]>> \o replaceBraceClozes(s, p + 1, insideLatex)

\* /(?<!{){(\d+):([^{}\n\r:]+)(?::([^\{\}\n\r:]+))?}/ tried at character p
explicitClozeAt(s, p) ==
    LET d        == digitRun(s, p + 1)
        q        == p + 2 + d
        r        == q + clozeRun(s, q)
        h        == IF r <= Len(s) /\ s[r] = ":" THEN clozeRun(s, r + 1) ELSE 0
        withHint == h >= 1 /\ r + 1 + h <= Len(s) /\ s[r + 1 + h] = "}"
        e        == IF withHint THEN r + 1 + h ELSE r
    IN  [matches |-> /\ p <= Len(s) /\ s[p] = "{"
                     /\ p = 1 \/ s[p - 1] # "{"
                     /\ d >= 1
                     /\ p + 1 + d <= Len(s) /\ s[p + 1 + d] = ":"
                     /\ r > q
                     /\ e <= Len(s) /\ s[e] = "}",
         num     |-> slice(s, p + 1, p + d),
         cloze   |-> slice(s, q, r - 1),
         hint    |-> IF withHint THEN slice(s, r + 1, r + h) ELSE <<>>,
         end     |-> e + 1]

\* replaceExplicitClozes as it would be if it wrote group 1 whatever the
\* number: C15_PlainExplicitNumberKept tells it from replaceExplicitClozes
RECURSIVE replaceExplicitClozesGroupOne(_, _)
replaceExplicitClozesGroupOne(s, p) ==
    IF p > Len(s) THEN <<>>
    ELSE LET m == explicitClozeAt(s, p)
         IN  IF m.matches
             THEN canonicalCloze(<<"1">>, m.cloze, m.hint) \o replaceExplicitClozesGroupOne(s, m.end)
             ELSE <<s[p]>> \o replaceExplicitClozesGroupOne(s, p + 1)

\* the second replace (lines 702-704) from character p on
RECURSIVE replaceExplicitClozes(_, _)
replaceExplicitClozes(s, p) ==
    IF p > Len(s) THEN <<>>
    ELSE LET m == explicitClozeAt(s, p)
         IN  IF m.matches
             THEN canonicalCloze(m.num, m.cloze, m.hint) \o replaceExplicitClozes(s, m.end)
             ELSE <<s[p]>> \o replaceExplicitClozes(s, p + 1)

\* [^=]+ from character i: the length of the run
RECURSIVE notEqualsRun(_, _)
notEqualsRun(s, i) == IF i <= Len(s) /\ s[i] # "=" THEN 1 + notEqualsRun(s, i + 1) ELSE 0

\* /==(\S[^=]+)==/ tried at character p: after == one character that is no
\* white space, then one or more characters that are no =, then ==
highlightAt(s, p) ==
    LET e == p + 3 + notEqualsRun(s, p + 3)
    IN  [matches |-> /\ charRun(s, p, "=") >= 2
                     /\ p + 2 <= Len(s) /\ ~IsWS(s[p + 2])
                     /\ e > p + 3
                     /\ charRun(s, e, "=") >= 2,
         cloze   |-> slice(s, p + 2, e - 1),
         end     |-> e + 2]

\* the third replace (lines 706-711) from character p on
RECURSIVE replaceHighlights(_, _, _)
replaceHighlights(s, p, suppressed) ==
    IF p > Len(s) THEN <<>>
    ELSE LET m == highlightAt(s, p)
         IN  IF m.matches
             THEN (IF suppressed THEN slice(s, p, m.end - 1)
                   ELSE canonicalCloze(<<"1">>, m.cloze, <<>>))
                  \o replaceHighlights(s, m.end, suppressed)
             ELSE <<s[p]>> \o replaceHighlights(s, p + 1, suppressed)

convertToAnkiCloze(content, insideCode, insideLatex) ==
    replaceHighlights(
        replaceExplicitClozes(replaceBraceClozes(content, 1, insideLatex), 1),
        1, insideLatex \/ insideCode)

(***************************************************************************)
(* getBlockSequence: the partition of a text into plain segments (type 0), *)
(* code spans (type 1) and math spans (type 2).  Spans are [start, end) in *)
(* 0-based offsets.                                                        *)
(***************************************************************************)
\* blocks.forEach(...): the spans of every list with the type of their list
allBlocksOf(blocks) ==
    [k \in DOMAIN blocks[1] |-> [indices |-> blocks[1][k], blockType |-> 1]]
    \o [k \in DOMAIN blocks[2] |-> [indices |-> blocks[2][k], blockType |-> 2]]

\* one step of the stable sort: b goes behind the last block that does not start after it
RECURSIVE insertByStart(_, _)
insertByStart(sorted, b) ==
    IF sorted = <<>> THEN <<b>>
    ELSE IF sorted[Len(sorted)].indices.start <= b.indices.start THEN Append(sorted, b)
    ELSE Append(insertByStart(SubSeq(sorted, 1, Len(sorted) - 1), b), sorted[Len(sorted)])

\* allBlocks.sort((a, b) => a.indices.start - b.indices.start), a stable sort
RECURSIVE sortByStart(_)
sortByStart(allBlocks) ==
    IF allBlocks = <<>> THEN <<>>
    ELSE insertByStart(sortByStart(SubSeq(allBlocks, 1, Len(allBlocks) - 1)),
                       allBlocks[Len(allBlocks)])

\* the loop of lines 851-856 from block k on
RECURSIVE filterFrom(_, _, _)
filterFrom(allBlocks, k, filteredBlocks) ==
    IF k > Len(allBlocks) THEN filteredBlocks
    ELSE IF \/ filteredBlocks = <<>>
            \/ allBlocks[k].indices.start >= filteredBlocks[Len(filteredBlocks)].indices.end
    THEN filterFrom(allBlocks, k + 1, Append(filteredBlocks, allBlocks[k]))
    ELSE filterFrom(allBlocks, k + 1, filteredBlocks)

\* the filter as it would be if no block were skipped
filteredBlocksAll(allBlocks) == allBlocks

\* lines 850-856: the blocks that do not start before the end of the last one kept
filteredBlocksOf(allBlocks) == filterFrom(allBlocks, 1, <<>>)

\* the loop of lines 863-873 from block k on, then lines 875-878
RECURSIVE segmentsFrom(_, _, _, _, _)
segmentsFrom(content, filteredBlocks, k, lastEnd, blockSequence) ==
    IF k > Len(filteredBlocks)
    THEN IF lastEnd < Len(content)
         THEN Append(blockSequence, [content |-> slice(content, lastEnd + 1, Len(content)),
                                     blockType |-> 0])
         ELSE blockSequence
    ELSE LET block == filteredBlocks[k]
             withText == IF block.indices.start > lastEnd
                         THEN Append(blockSequence,
                                     [content |-> slice(content, lastEnd + 1, block.indices.start),
                                      blockType |-> 0])
                         ELSE blockSequence
         IN  segmentsFrom(content, filteredBlocks, k + 1, block.indices.end,
                          Append(withText,
                                 [content |-> slice(content, block.indices.start + 1,
                                                    block.indices.end),
                                  blockType |-> block.blockType]))

getBlockSequence(content, blocks) ==
    segmentsFrom(content, filteredBlocksOf(sortByStart(allBlocksOf(blocks))), 1, 0, <<>>)

(***************************************************************************)
(* formatFlashcardField and the loop of makeFlashcards.                    *)
(***************************************************************************)
\* The characters of which the documents of the synchronization model are
\* written.  None of them opens a code span, a math span, an emphasis or a
\* cloze.
DocAlphabet == {"Q", "A", "t", "x", "d", "e", "l", ":", "^", "-", " ", "7", "8", "\n"}

\* convertToAnkiCloze on a plain segment: its three patterns need a brace or
\* ==, so a text with neither is returned as it is
clozesOfText(content) ==
    IF \A i \in DOMAIN content : content[i] \notin {"{", "="} THEN content
    ELSE convertToAnkiCloze(content, FALSE, FALSE)

\* lines 797-814: the segments joined, trimmed, newlines turned into <br>
formatBlockSequence(blockSequence) ==
    newlinesToBr(trim(IF blockSequence = <<>> THEN <<>>
                      ELSE clozesOfText(blockSequence[1].content)))

\* formatFlashcardField on a text without backtick, $, *, _ and ~: no code
\* and no math span is found in it, so getBlockSequence returns it as one
\* plain segment, in which applyMarkdownFormatting finds nothing to rewrite
formatFlashcardField(content) ==
    formatBlockSequence(getBlockSequence(content, << <<>>, <<>> >>))

\* [^}]+ from character i
RECURSIVE notBraceRun(_, _)
notBraceRun(s, i) == IF i <= Len(s) /\ s[i] # "}" THEN 1 + notBraceRun(s, i + 1) ELSE 0

\* /\{\{c\d+::[^}]+\}\}/ matches at character i
clozeMatchAt(s, i) ==
    LET d == digitRun(s, i + 3)
        t == notBraceRun(s, i + 5 + d)
    IN  /\ i + 2 <= Len(s)
        /\ s[i] = "{" /\ s[i + 1] = "{" /\ s[i + 2] = "c"
        /\ d >= 1
        /\ i + 4 + d <= Len(s)
        /\ s[i + 3 + d] = ":" /\ s[i + 4 + d] = ":"
        /\ t >= 1
        /\ i + 6 + d + t <= Len(s)
        /\ s[i + 5 + d + t] = "}" /\ s[i + 6 + d + t] = "}"

\* clozeRegex.test(content); fields[0] of an empty field list is `undefined`,
\* which the regex tests as the text "undefined"
isClozeCard(content) == \E i \in 1..Len(content) : clozeMatchAt(content, i)

\* fields[k] || '' with k 0-based
fieldOrEmpty(fields, k) == IF k + 1 <= Len(fields) THEN fields[k + 1] ELSE <<>>

\* modelNameOf as it would be with one template for Basic and Reversed
modelNameOfTwoTemplates(type) ==
    IF type = "Cloze" THEN "ObsidianCloze" ELSE "ObsidianBasic"

\* new Flashcard({...}).modelName
modelNameOf(type) ==
    IF type = "Cloze" THEN "ObsidianCloze"
    ELSE IF type = "Reversed" THEN "ObsidianReversed"
    ELSE "ObsidianBasic"

\* lines 511-513: every field formatted
formatFields(fields) == [k \in DOMAIN fields |-> formatFlashcardField(fields[k])]

\* lines 513-536: the sequence of the block's card, empty when the block is
\* not a card; card is the body without id, links and tags, fields its
\* formatted fields
flashcardOf(block, id, tags, card, fields, reverseCard, deck) ==
    LET isCloze == IF fields = <<>> THEN FALSE ELSE isClozeCard(fields[1])
        type    == IF isCloze THEN "Cloze"
                   ELSE IF reverseCard THEN "Reversed" ELSE "Basic"
        named   == IF isCloze
                   THEN ("Text" :> fieldOrEmpty(fields, 0)) @@ ("Back Extra" :> fieldOrEmpty(fields, 1))
                   ELSE ("Front" :> fieldOrEmpty(fields, 0)) @@ ("Back" :> fieldOrEmpty(fields, 1))
    IN  IF ~isCloze /\ ~includes(card, <<":", ":">>)
        THEN <<>>
        ELSE << [flashcard |-> [id |-> id,
                                deckName |-> IF deck = <<>> THEN <<"D", "e", "f", "a", "u", "l", "t">> ELSE deck,
                                type |-> type,
                                fields |-> named,
                                tags |-> tags,
                                modelName |-> modelNameOf(type)],
                 startLine |-> block.startLine,
                 endLine |-> block.endLine] >>

\* lines 480-487: the id of the block, `undefined` without a match
idOfBody(body, p) == IF p = 0 THEN Undefined ELSE Number(idMatchDigits(body, p))

\* lines 490-503: the tags of a body from which the id was taken
tagsOfBody(noLinks, linkTags, globalTags) == tagMatchesFrom(noLinks, 1) \o linkTags \o globalTags

\* lines 498-502: the card text, noLinks being the body without id and links
cardOfBody(noLinks, tagList) ==
    IF tagList # <<>> THEN trim(removeTagsFrom(noLinks, 1)) ELSE noLinks

\* lines 505-536 for the card text
flashcardOfCard(block, id, tags, card, split, deck) ==
    flashcardOf(block, id, tags, card, formatFields(split.fields), split.reverseCard, deck)

\* lines 497-536 for the body without its id and with its links replaced
flashcardOfBody(block, id, linkTags, noLinks, deck, globalTags) ==
    flashcardOfCard(block, id, tagsOfBody(noLinks, linkTags, globalTags),
                    cardOfBody(noLinks, tagMatchesFrom(noLinks, 1)),
                    splitIntoFields(cardOfBody(noLinks, tagMatchesFrom(noLinks, 1))), deck)

\* lines 490-536 for the body without its id
flashcardWithId(block, id, noId, deck, globalTags) ==
    flashcardOfBody(block, id, linkTagsFrom(noId, 1), replaceLinksFrom(noId, 1), deck, globalTags)

\* the body of the for loop of makeFlashcards for one block: the sequence of
\* the block's card, empty when the block is not a card
makeFlashcard(block, deck, globalTags) ==
    flashcardWithId(block, idOfBody(block.body, idMatchIndex(block.body)),
                    removeIdMatch(block.body), deck, globalTags)

RECURSIVE makeFlashcards(_, _, _)
makeFlashcards(flashcardBodies, deck, globalTags) ==
    IF flashcardBodies = <<>> THEN <<>>
    ELSE makeFlashcard(Head(flashcardBodies), deck, globalTags)
         \o makeFlashcards(Tail(flashcardBodies), deck, globalTags)

(***************************************************************************)
(* The editor of the active view (Obsidian's Editor): the document is its  *)
(* sequence of lines, positions are {line, ch}, both 0-based.              *)
(***************************************************************************)
\* editor.getValue()
getValue(d) == joinLines(d)

\* editor.lineCount()
lineCount(d) == Len(d)

\* editor.getLine(n)
getLine(d, n) == IF n < Len(d) THEN d[n + 1] ELSE <<>>

\* the offset of the first character of line n
RECURSIVE lineStart(_, _)
lineStart(d, n) == IF n = 0 THEN 0 ELSE lineStart(d, n - 1) + Len(d[n]) + 1

\* editor.posToOffset: a position past the end is clipped to the end
posToOffset(d, pos) ==
    IF pos.line >= Len(d) THEN Len(getValue(d))
    ELSE lineStart(d, pos.line)
         + (IF pos.ch > Len(d[pos.line + 1]) THEN Len(d[pos.line + 1]) ELSE pos.ch)

\* editor.offsetToPos
offsetToPos(d, offset) ==
    LET n == Cardinality({j \in 1..offset : getValue(d)[j] = "\n"})
    IN  [line |-> n, ch |-> offset - lineStart(d, n)]

\* editor.replaceRange(text, from, to)
replaceRange(d, text, from, to) ==
    LET v == getValue(d)
    IN  splitLines(SubSeq(v, 1, posToOffset(d, from)) \o text
                   \o SubSeq(v, posToOffset(d, to) + 1, Len(v)))

(***************************************************************************)
(* syncFlashcardsWithAnki: the write-back of the ids addNotes returned.    *)
(***************************************************************************)
\* newIds[i], i 0-based: `undefined` past the end of the array
newIdAt(newIds, i) == IF i + 1 <= Len(newIds) THEN newIds[i + 1] ELSE Undefined

\* writeBackOne as it would be if the insertions ignored the lines already
\* inserted (targetLine = endLine + 1): C4_InsertionOffsets tells it from
\* writeBackOne
writeBackOneNoOffset(w, c, newId) ==
    LET oldId   == w.flashcardBlocks[c].flashcard.id
        endLine == w.flashcardBlocks[c].endLine
        blocks  == [w.flashcardBlocks EXCEPT ![c].flashcard.id = newId]
        at      == [line |-> endLine + 1, ch |-> 0]
        line    == getLine(w.doc, endLine)
    IN  IF oldId = Undefined
        THEN [w EXCEPT
                !.flashcardBlocks = blocks,
                !.doc = IF endLine + 1 >= lineCount(w.doc)
                        THEN replaceRange(w.doc, <<"\n", "^">> \o toString(newId) \o <<"\n">>, at, at)
                        ELSE replaceRange(w.doc, <<"^">> \o toString(newId) \o <<"\n">>, at, at),
                !.edits = Append(w.edits,
                                 [kind |-> "insert", card |-> c, line |-> endLine + 1,
                                  k |-> w.linesInserted, oldId |-> oldId, newId |-> newId]),
                !.linesInserted = w.linesInserted + 1,
                !.cardsAdded = w.cardsAdded + 1]
        ELSE [w EXCEPT
                !.flashcardBlocks = blocks,
                !.doc = replaceRange(w.doc,
                                     replaceFirst(line, <<"^">> \o toString(oldId),
                                                  <<"^">> \o toString(newId)),
                                     [line |-> endLine, ch |-> 0],
                                     [line |-> endLine, ch |-> Len(line)]),
                !.edits = Append(w.edits,
                                 [kind |-> "replace", card |-> c, line |-> endLine,
                                  k |-> w.linesInserted, oldId |-> oldId, newId |-> newId]),
                !.cardsAdded = w.cardsAdded + 1]

\* lines 583-607 for one record with a numeric new id: w holds the document,
\* the card list and the counters of the pass; c is the record's index
writeBackOne(w, c, newId) ==
    LET oldId   == w.flashcardBlocks[c].flashcard.id
        endLine == w.flashcardBlocks[c].endLine
        blocks  == [w.flashcardBlocks EXCEPT ![c].flashcard.id = newId]
    IN  IF oldId = Undefined
        THEN LET targetLine == endLine + 1 + w.linesInserted
                 footnote   == <<"^">> \o toString(newId) \o <<"\n">>
                 at         == [line |-> targetLine, ch |-> 0]
             IN  [w EXCEPT
                    !.flashcardBlocks = blocks,
                    !.doc = IF targetLine >= lineCount(w.doc)
                            THEN replaceRange(w.doc, <<"\n">> \o footnote, at, at)
                            ELSE replaceRange(w.doc, footnote, at, at),
                    !.edits = Append(w.edits,
                                     [kind |-> "insert", card |-> c, line |-> targetLine,
                                      k |-> w.linesInserted, oldId |-> oldId, newId |-> newId]),
                    !.linesInserted = w.linesInserted + 1,
                    !.cardsAdded = w.cardsAdded + 1]
        ELSE LET targetLine == endLine + w.linesInserted
                 line       == getLine(w.doc, targetLine)
                 newLine    == replaceFirst(line, <<"^">> \o toString(oldId),
                                            <<"^">> \o toString(newId))
             IN  [w EXCEPT
                    !.flashcardBlocks = blocks,
                    !.doc = replaceRange(w.doc, newLine,
                                         [line |-> targetLine, ch |-> 0],
                                         [line |-> targetLine, ch |-> Len(line)]),
                    !.edits = Append(w.edits,
                                     [kind |-> "replace", card |-> c, line |-> targetLine,
                                      k |-> w.linesInserted, oldId |-> oldId, newId |-> newId]),
                    !.cardsAdded = w.cardsAdded + 1]

\* the for loop of lines 573-608, i 0-based
RECURSIVE writeBack(_, _, _, _)
writeBack(w, newCards, newIds, i) ==
    IF i >= Len(newCards) THEN w
    ELSE IF newIdAt(newIds, i) = Undefined
    THEN writeBack(w, newCards, newIds, i + 1)
    ELSE writeBack(writeBackOne(w, newCards[i + 1], newIdAt(newIds, i)), newCards, newIds, i + 1)

(***************************************************************************)
(* deleteMarkedFlashcards: the deletion scanner.                           *)
(*   /^(?<!::\n)(?<!::\r\n)[ \t]*?delete\s*?\^(\d+)\s*?$/gmi               *)
(***************************************************************************)
UpperCase == <<"A", "B", "C", "D", "E", "F", "G", "H", "I", "J", "K", "L", "M",
               "N", "O", "P", "Q", "R", "S", "T", "U", "V", "W", "X", "Y", "Z">>

LowerCase == <<"a", "b", "c", "d", "e", "f", "g", "h", "i", "j", "k", "l", "m",
               "n", "o", "p", "q", "r", "s", "t", "u", "v", "w", "x", "y", "z">>

\* the i flag: letters compare by their lower case
toLowerCase(c) ==
    IF \E k \in 1..26 : UpperCase[k] = c
    THEN LowerCase[CHOOSE k \in 1..26 : UpperCase[k] = c]
    ELSE c

\* [ \t]* from character i
RECURSIVE blankRun(_, _)
blankRun(s, i) == IF i <= Len(s) /\ s[i] \in {" ", "\t"} THEN 1 + blankRun(s, i + 1) ELSE 0

\* \s* from character i
RECURSIVE wsRun(_, _)
wsRun(s, i) == IF i <= Len(s) /\ IsWS(s[i]) THEN 1 + wsRun(s, i + 1) ELSE 0

\* the word delete, in any case, at character i
deleteWordAt(s, i) ==
    /\ i + 5 <= Len(s)
    /\ [k \in 1..6 |-> toLowerCase(s[i + k - 1])] = <<"d", "e", "l", "e", "t", "e">>

\* where the ^ of a match starting at p stands
deleteCaretAt(s, p) == p + blankRun(s, p) + 6 + wsRun(s, p + blankRun(s, p) + 6)

\* the character after the match starting at p: the digits, then blanks up to
\* the end of the line ($ under the m flag)
deleteMatchEnd(s, p) ==
    LET e == deleteCaretAt(s, p) + 1 + digitRun(s, deleteCaretAt(s, p) + 1)
    IN  e + blankRun(s, e)

\* the regex matches at character p
deleteMatchAt(s, p) ==
    /\ p = 1 \/ s[p - 1] \in {"\n", "\r"}
    /\ ~(p >= 4 /\ SubSeq(s, p - 3, p - 1) = <<":", ":", "\n">>)
    /\ ~(p >= 5 /\ SubSeq(s, p - 4, p - 1) = <<":", ":", "\r", "\n">>)
    /\ deleteWordAt(s, p + blankRun(s, p))
    /\ deleteCaretAt(s, p) <= Len(s)
    /\ s[deleteCaretAt(s, p)] = "^"
    /\ digitRun(s, deleteCaretAt(s, p) + 1) >= 1
    /\ \/ deleteMatchEnd(s, p) > Len(s)
       \/ s[deleteMatchEnd(s, p)] \in {"\n", "\r"}

\* the while loop of lines 634-640 from character `from`: the matches in text
\* order, start and end as 0-based offsets (match.index, lastIndex)
RECURSIVE deleteMatches(_, _)
deleteMatches(s, from) ==
    IF from > Len(s) THEN <<>>
    ELSE IF deleteMatchAt(s, from)
    THEN << [start |-> from - 1,
             end |-> deleteMatchEnd(s, from) - 1,
             noteId |-> Number(SubSeq(s, deleteCaretAt(s, from) + 1,
                                      deleteCaretAt(s, from) + digitRun(s, deleteCaretAt(s, from) + 1)))] >>
         \o deleteMatches(s, deleteMatchEnd(s, from))
    ELSE deleteMatches(s, from + 1)

\* the for loop of lines 645-651: the spans removed from the last to the first
RECURSIVE removePortions(_, _, _)
removePortions(d, portions, i) ==
    IF i < 0 THEN d
    ELSE removePortions(replaceRange(d, <<>>, offsetToPos(d, portions[i + 1].start),
                                     offsetToPos(d, portions[i + 1].end)),
                        portions, i - 1)

(***************************************************************************)
(* getHeaderList and getHeadersForLine: the headers above a line.          *)
(***************************************************************************)
\* lines[i].match(/^(#+)\s+(.*)$/): the header of line i (0-based), as a
\* sequence of one record, empty when the line is no header
headerOf(lines, i) ==
    LET l == lines[i + 1]
        h == charRun(l, 1, "#")
        w == wsRun(l, h + 1)
    IN  IF h >= 1 /\ w >= 1
        THEN << [content |-> slice(l, h + w + 1, Len(l)), level |-> h, line |-> i] >>
        ELSE <<>>

\* the loop of getHeaderList from line i (0-based) on
RECURSIVE headerListFrom(_, _)
headerListFrom(lines, i) ==
    IF i >= Len(lines) THEN <<>>
    ELSE headerOf(lines, i) \o headerListFrom(lines, i + 1)

getHeaderList(content) == headerListFrom(splitLines(content), 0)

\* the test of line 888 as it would be without the comparison of levels
skipsHeaderAfterOnly(h, line, lastLevel) == h.line > line

\* line 888: the header is passed over
skipsHeader(h, line, lastLevel) == h.line > line \/ h.level >= lastLevel

\* the loop of lines 887-893 from header i (0-based) down
RECURSIVE headersLoop(_, _, _, _, _)
headersLoop(headerList, line, i, lastLevel, headers) ==
    IF i < 0 THEN headers
    ELSE IF skipsHeader(headerList[i + 1], line, lastLevel)
    THEN headersLoop(headerList, line, i - 1, lastLevel, headers)
    ELSE headersLoop(headerList, line, i - 1, headerList[i + 1].level,
                     Append(headers, headerList[i + 1]))

getHeadersForLine(content, line) ==
    LET headerList == getHeaderList(content)
    IN  headersLoop(headerList, line, Len(headerList) - 1, 10, <<>>)

(***************************************************************************)
(* extractYamlProperties: deck and tags of the front matter.  JavaScript   *)
(* values are records: [kind |-> "undefined"], [kind |-> "null"],          *)
(* [kind |-> "string", value |-> text], [kind |-> "number", value |-> n],  *)
(* [kind |-> "array", items |-> values], and for the object yaml.load      *)
(* returns [kind |-> "mapping", deck |-> value, tags |-> value].           *)
(***************************************************************************)
JsUndefined == [kind |-> "undefined"]

JsNull == [kind |-> "null"]

JsString(text) == [kind |-> "string", value |-> text]

JsNumber(n) == [kind |-> "number", value |-> n]

\* the object {} parsed starts as
EmptyMapping == [kind |-> "mapping", deck |-> JsUndefined, tags |-> JsUndefined]

\* String(v) for a string or a number
String(v) == IF v.kind = "number" THEN toString(v.value) ELSE v.value

\* the value in a condition, or before ||
truthy(v) ==
    CASE v.kind \in {"undefined", "null"} -> FALSE
      [] v.kind = "string" -> v.value # <<>>
      [] v.kind = "number" -> v.value # 0
      [] OTHER -> TRUE

\* where /^---\n([\s\S]*?)\n---/ ends its group: the first newline followed
\* by --- behind the opening ---\n, 0 when the regex does not match
yamlMatchEnd(content) ==
    IF /\ startsWith(content, <<"-", "-", "-", "\n">>)
       /\ \E i \in 5..Len(content) : slice(content, i, i + 3) = <<"\n", "-", "-", "-">>
    THEN CHOOSE i \in 5..Len(content) :
             /\ slice(content, i, i + 3) = <<"\n", "-", "-", "-">>
             /\ \A j \in 5..(i - 1) : slice(content, j, j + 3) # <<"\n", "-", "-", "-">>
    ELSE 0

\* yamlMatch[1]
yamlContentOf(content) == slice(content, 5, yamlMatchEnd(content) - 1)

\* text.split(/\s+/) from character i on, cur the part being read
RECURSIVE splitOnSpace(_, _, _)
splitOnSpace(text, i, cur) ==
    IF i > Len(text) THEN <<cur>>
    ELSE IF IsWS(text[i])
    THEN <<cur>> \o splitOnSpace(text, i + wsRun(text, i), <<>>)
    ELSE splitOnSpace(text, i + 1, Append(cur, text[i]))

\* lines 742-749: the tag list read from parsed.tags
tagsOf(tags) ==
    IF ~truthy(tags) THEN <<>>
    ELSE IF tags.kind = "array" THEN [k \in DOMAIN tags.items |-> String(tags.items[k])]
    ELSE IF tags.kind = "string"
    THEN SelectSeq([k \in DOMAIN splitOnSpace(tags.value, 1, <<>>) |->
                       trim(splitOnSpace(tags.value, 1, <<>>)[k])],
                   LAMBDA t : t # <<>>)
    ELSE <<>>

\* a property read from parsed: reading one from undefined or null throws a
\* TypeError, a string or a number has neither deck nor tags
propertyOf(parsed, name) ==
    IF parsed.kind = "mapping" THEN (IF name = "deck" THEN parsed.deck ELSE parsed.tags)
    ELSE JsUndefined

\* extractYamlProperties(content), loaded being what yaml.load does with the
\* front matter: [kind |-> "throws"] or the value it returns
extractYamlProperties(content, loaded) ==
    IF yamlMatchEnd(content) = 0 THEN [kind |-> "returned", deck |-> JsUndefined, tags |-> <<>>]
    ELSE LET parsed == IF loaded.kind = "throws" THEN EmptyMapping ELSE loaded
         IN  IF parsed.kind \in {"undefined", "null"}
             THEN [kind |-> "thrown", deck |-> JsUndefined, tags |-> <<>>]
             ELSE [kind |-> "returned",
                   deck |-> propertyOf(parsed, "deck"),
                   tags |-> tagsOf(propertyOf(parsed, "tags"))]

(***************************************************************************)
(* State.                                                                  *)
(***************************************************************************)
VARIABLES
    doc,          \* the editor: the lines of the active document
    notes,        \* Anki: the ids of the notes the store holds
    nextId,       \* Anki: the id the next created note gets
    storeModels,  \* Anki: the names of the note types that exist
    storeDecks,   \* Anki: the names of the decks that exist
    storeTouched, \* a note was deleted in Anki itself after the first run ended
    runs,         \* the invocations of ankify: their locals and where they stand
    sfBody,       \* splitIntoFields: the card body handed in
    sfState,      \* "input" before the call, "done" after it
    sfResult,     \* what the call returned: [fields, reverseCard]
    czInput,      \* convertToAnkiCloze: how the content handed in is built
    czInside,     \* the segment it comes from: "text", "code" or "latex"
    czState,      \* "input" before the call, "done" after it, "again" after
                  \* a second call on the result
    czResult,     \* what the call returned
    czAgain,      \* what the second call returned
    gbLines,      \* getFlashcardBodies: the lines of the content handed in
    gbState,      \* "input" before the call, "done" after it
    gbResult,     \* what the call returned: the blocks
    bsInput,      \* getBlockSequence: [content, code, latex], a text and its spans
    bsState,      \* "input" before the call, "done" after it
    bsResult,     \* what the call returned: the segments
    mfBlock,      \* makeFlashcards: the block handed in
    mfState,      \* "input" before the call, "done" after it
    mfResult,     \* what the call returned: the records
    hlInput,      \* getHeadersForLine: [lines, line], a document and a line of it
    hlState,      \* "input" before the call, "done" after it
    hlResult,     \* what the call returned: the headers
    ymInput,      \* extractYamlProperties: [content, parsed], a text and what
                  \* yaml.load makes of its front matter
    ymState,      \* "input" before the call, "done" after it, "deck" once
                  \* ankify has chosen the deck
    ymResult      \* what the call returned, then the deck ankify uses

vars == <<doc, notes, nextId, storeModels, storeDecks, storeTouched, runs,
          sfBody, sfState, sfResult, czInput, czInside, czState, czResult, czAgain,
          gbLines, gbState, gbResult, bsInput, bsState, bsResult,
          mfBlock, mfState, mfResult, hlInput, hlState, hlResult,
          ymInput, ymState, ymResult>>

syncVars == <<doc, notes, nextId, storeModels, storeDecks, storeTouched, runs>>

splitVars == <<sfBody, sfState, sfResult>>

clozeVars == <<czInput, czInside, czState, czResult, czAgain>>

bodiesVars == <<gbLines, gbState, gbResult>>

blockVars == <<bsInput, bsState, bsResult>>

cardVars == <<mfBlock, mfState, mfResult>>

headerVars == <<hlInput, hlState, hlResult>>

yamlVars == <<ymInput, ymState, ymResult>>

otherVars == <<blockVars, cardVars, headerVars, yamlVars>>

\* the variables of the specifications of single functions
pureVars == <<splitVars, clozeVars, bodiesVars, blockVars, cardVars, headerVars, yamlVars>>

(***************************************************************************)
(* Bounds and inputs of the synchronization model.                         *)
(***************************************************************************)
\* longest document drawn from DocLines, in lines
MaxLines == 3

\* the id Anki gives the first note it creates
FirstNewId == 100

\* the invocations of ankify: the first run and the one after it
RunIds == {1, 2}

CardLine == <<"Q", ":", ":", "A">>

BulletLine == <<"-", " ", "x">>

TextLine == <<"t">>

IdLine(n) == <<"^">> \o toString(n)

DeleteLine(n) == <<"d", "e", "l", "e", "t", "e", " ", "^">> \o toString(n)

\* the lines of which the small documents are made
DocLines == {CardLine, BulletLine, TextLine, IdLine(7), DeleteLine(7)}

\* every document of at most MaxLines lines over DocLines
SmallDocs == UNION {[1..n -> DocLines] : n \in 1..MaxLines}

\* three cards whose blocks end at lines 2, 5 and 9, no identifier line
ThreeCardDoc ==
    <<CardLine, BulletLine, BulletLine,
      CardLine, BulletLine, BulletLine,
      CardLine, BulletLine, BulletLine, BulletLine>>

\* two cards, each with its identifier line, and a card without one
TwoIdDoc == <<CardLine, IdLine(7), CardLine, IdLine(8), CardLine>>

LongDocs == {ThreeCardDoc, TwoIdDoc}

\* this.settings.defaultDeck
DefaultDeck == <<"O", "b", "s">>

\* globalTags after globalTags.push('obsidian')
GlobalTags == << <<"o", "b", "s", "i", "d", "i", "a", "n">> >>

\* the backlink stored in every card's Source field
SourceLink == <<"s", "r", "c">>

\* ObsidianBasicModel, ObsidianClozeModel, ObsidianBasicReversedModel: the
\* order in which ensureDefaultModelsExist looks for them
DefaultModels == <<"ObsidianBasic", "ObsidianCloze", "ObsidianReversed">>

\* how a request to AnkiConnect ends: a well-formed answer, an answer of
\* another shape (result: null with an error), or fetch rejecting
Outcomes == {"ok", "bad", "throw"}

\* The locals of one invocation of ankify.  calls, edits, newIds, docAtStart,
\* connected, created, updated and allOk record what happened in the run: the
\* requests sent, the write-backs made, the ids addNotes answered, the text
\* when the run began, what checkAnkiConnect returned, whether addNotes was
\* answered, the notes whose updateNote succeeded, and whether every request
\* so far was answered well-formed and in full.
IdleRun ==
    [pc |-> "idle",
     content |-> <<>>,
     flashcardBlocks |-> <<>>,
     cursor |-> 0,
     newCards |-> <<>>,
     existingCards |-> <<>>,
     newIds |-> <<>>,
     linesInserted |-> 0,
     cardsAdded |-> 0,
     cardsUpdated |-> 0,
     cardsDeleted |-> 0,
     noteIds |-> <<>>,
     modelsLeft |-> <<>>,
     result |-> "pending",
     calls |-> <<>>,
     edits |-> <<>>,
     docAtStart |-> <<>>,
     connected |-> "unknown",
     created |-> FALSE,
     updated |-> {},
     allOk |-> TRUE]

(***************************************************************************)
(* ankiConnectRequest: the request each await of the run waits on.         *)
(***************************************************************************)
RequestAt(pc) ==
    CASE pc = "version"        -> [action |-> "version", from |-> "checkAnkiConnect"]
      [] pc = "modelNames"     -> [action |-> "modelNames", from |-> "ensureDefaultModelsExist"]
      [] pc = "createModel"    -> [action |-> "createModel", from |-> "ensureDefaultModelsExist"]
      [] pc = "deckNames"      -> [action |-> "deckNames", from |-> "ensureDeckExists"]
      [] pc = "createDeck"     -> [action |-> "createDeck", from |-> "ensureDeckExists"]
      [] pc = "notesInfo"      -> [action |-> "notesInfo", from |-> "syncFlashcardsWithAnki"]
      [] pc = "addNotes"       -> [action |-> "addNotes", from |-> "addNotesToAnki"]
      [] pc = "changeDeckInfo" -> [action |-> "notesInfo", from |-> "changeDeck"]
      [] pc = "changeDeck"     -> [action |-> "changeDeck", from |-> "changeDeck"]
      [] pc = "multi"          -> [action |-> "multi", from |-> "updateNotesInAnki"]
      [] pc = "deleteNotes"    -> [action |-> "deleteNotes", from |-> "deleteMarkedFlashcards"]

Awaits == {"version", "modelNames", "createModel", "deckNames", "createDeck", "notesInfo",
           "addNotes", "changeDeckInfo", "changeDeck", "multi", "deleteNotes"}

\* the run moves on to pc; when a request is awaited there, it is sent
goto(run, pc) ==
    [run EXCEPT !.pc = pc,
                !.calls = IF pc \in Awaits THEN Append(run.calls, RequestAt(pc)) ELSE run.calls]

\* the outcome of a reply is remembered: allOk says every request of the run
\* so far was answered well-formed and in full
noted(run, ok) == [run EXCEPT !.allOk = run.allOk /\ ok]

\* ankify returns {} (result "empty"), returns its counts ("counts") or its
\* promise rejects with the error a request threw ("rejected")
finish(run, result) == [run EXCEPT !.pc = "done", !.result = result]

(***************************************************************************)
(* ankify, one action per stretch of code between two awaits on the store. *)
(***************************************************************************)
\* sanitizeDeckName: deckName.replace(/[\\/]/g, '::')
RECURSIVE sanitizeDeckName(_)
sanitizeDeckName(deckName) ==
    IF deckName = <<>> THEN <<>>
    ELSE IF Head(deckName) \in {"/", "\\"} THEN <<":", ":">> \o sanitizeDeckName(Tail(deckName))
    ELSE <<Head(deckName)>> \o sanitizeDeckName(Tail(deckName))

\* ankify is invoked (the ribbon icon): await checkAnkiConnect()
Ankify(r) ==
    /\ runs[r].pc = "idle"
    /\ runs' = [runs EXCEPT ![r] = goto([@ EXCEPT !.docAtStart = doc], "version")]
    /\ UNCHANGED <<doc, notes, nextId, storeModels, storeDecks, storeTouched, pureVars>>

\* VersionReply as it would be if ankify did not look at what
\* checkAnkiConnect returned: C7_FailedCheckDoesNothing tells it from
\* VersionReply
VersionReplyUnchecked(r, o) ==
    /\ runs[r].pc = "version"
    /\ runs' = [runs EXCEPT ![r] =
                    goto([noted(@, o = "ok") EXCEPT
                            !.connected = IF o = "ok" THEN "yes" ELSE "no"],
                         "modelNames")]
    /\ UNCHANGED <<doc, notes, nextId, storeModels, storeDecks, storeTouched, pureVars>>

\* checkAnkiConnect: only a numeric result lets ankify go on, to
\* ensureDefaultModelsExist
VersionReply(r, o) ==
    /\ runs[r].pc = "version"
    /\ runs' = [runs EXCEPT ![r] =
                    IF o = "ok"
                    THEN goto([noted(@, TRUE) EXCEPT !.connected = "yes"], "modelNames")
                    ELSE finish([noted(@, FALSE) EXCEPT !.connected = "no"], "empty")]
    /\ UNCHANGED <<doc, notes, nextId, storeModels, storeDecks, storeTouched, pureVars>>

\* ankify lines 380-392, after ensureDefaultModelsExist: without an active
\* markdown view return {}, else read the text and await ensureDeckExists
afterModels(run, hasView) ==
    IF ~hasView THEN finish(run, "empty")
    ELSE goto([run EXCEPT !.content = getValue(doc)], "deckNames")

\* the default models the store lacks, in the order they are looked for
missingModels == SelectSeq(DefaultModels, LAMBDA m : m \notin storeModels)

\* ensureDefaultModelsExist: the answer to modelNames
ModelNamesReply(r, o, hasView) ==
    /\ runs[r].pc = "modelNames"
    /\ runs' = [runs EXCEPT ![r] =
                    IF o = "ok" /\ missingModels # <<>>
                    THEN goto([noted(@, TRUE) EXCEPT !.modelsLeft = missingModels], "createModel")
                    ELSE afterModels(noted(@, o = "ok"), hasView)]
    /\ UNCHANGED <<doc, notes, nextId, storeModels, storeDecks, storeTouched, pureVars>>

\* ensureDefaultModelsExist: the answer to createModel; a thrown error ends
\* the function (caught), any answer lets it go on to the next missing model
CreateModelReply(r, o, hasView) ==
    /\ runs[r].pc = "createModel"
    /\ storeModels' = IF o = "ok" THEN storeModels \cup {Head(runs[r].modelsLeft)}
                      ELSE storeModels
    /\ runs' = [runs EXCEPT ![r] =
                    IF o # "throw" /\ Tail(@.modelsLeft) # <<>>
                    THEN goto([noted(@, o = "ok") EXCEPT !.modelsLeft = Tail(runs[r].modelsLeft)],
                              "createModel")
                    ELSE afterModels(noted(@, o = "ok"), hasView)]
    /\ UNCHANGED <<doc, notes, nextId, storeDecks, storeTouched, pureVars>>

\* the for loop of syncFlashcardsWithAnki lines 549-562 from record `from`
\* (1-based) on: records without id go to newCards, the loop stops at the
\* first record with an id, whose notesInfo it awaits
RECURSIVE scanCards(_, _, _)
scanCards(blocks, from, newCards) ==
    IF from > Len(blocks) THEN [cursor |-> from, newCards |-> newCards]
    ELSE IF blocks[from].flashcard.id = Undefined
    THEN scanCards(blocks, from + 1, Append(newCards, from))
    ELSE [cursor |-> from, newCards |-> newCards]

\* lines 611-622: the batched update, when there is a record to update
batchUpdate(run) ==
    IF run.existingCards # <<>> THEN goto(run, "changeDeckInfo") ELSE goto(run, "synced")

\* lines 564-571: the batched create, when there is a record to create
batchAdd(run) ==
    IF run.newCards # <<>> THEN goto(run, "addNotes") ELSE batchUpdate(run)

\* lookupFrom as it would be if the create were sent as soon as a record is
\* known to be New: C9_LookupsThenCreateThenUpdate tells it from lookupFrom
lookupFromEager(run, from) ==
    LET sc == scanCards(run.flashcardBlocks, from, run.newCards)
        at == [run EXCEPT !.cursor = sc.cursor, !.newCards = sc.newCards]
    IN  IF sc.newCards # <<>> THEN goto(at, "addNotes")
        ELSE IF sc.cursor <= Len(run.flashcardBlocks) THEN goto(at, "notesInfo")
        ELSE batchAdd(at)

\* the lookup loop goes on at record `from`
lookupFrom(run, from) ==
    LET sc == scanCards(run.flashcardBlocks, from, run.newCards)
        at == [run EXCEPT !.cursor = sc.cursor, !.newCards = sc.newCards]
    IN  IF sc.cursor <= Len(run.flashcardBlocks) THEN goto(at, "notesInfo") ELSE batchAdd(at)

\* block.flashcard.fields.Source = sourceLink
withSource(blocks) ==
    [k \in DOMAIN blocks |->
        [blocks[k] EXCEPT !.flashcard.fields = @ @@ ("Source" :> SourceLink)]]

\* ankify lines 394-427, after ensureDeckExists: the cards of the text that
\* was read, then syncFlashcardsWithAnki up to its first await
afterDeck(run) ==
    lookupFrom([run EXCEPT !.flashcardBlocks =
                    withSource(makeFlashcards(getFlashcardBodies(run.content),
                                              DefaultDeck, GlobalTags))],
               1)

\* ensureDeckExists: the answer to deckNames
DeckNamesReply(r, o) ==
    /\ runs[r].pc = "deckNames"
    /\ runs' = [runs EXCEPT ![r] =
                    IF o = "ok" /\ sanitizeDeckName(DefaultDeck) \notin storeDecks
                    THEN goto(noted(@, TRUE), "createDeck")
                    ELSE afterDeck(noted(@, o = "ok"))]
    /\ UNCHANGED <<doc, notes, nextId, storeModels, storeDecks, storeTouched, pureVars>>

\* ensureDeckExists: the answer to createDeck
CreateDeckReply(r, o) ==
    /\ runs[r].pc = "createDeck"
    /\ storeDecks' = IF o = "ok" THEN storeDecks \cup {sanitizeDeckName(DefaultDeck)}
                     ELSE storeDecks
    /\ runs' = [runs EXCEPT ![r] = afterDeck(noted(@, o = "ok"))]
    /\ UNCHANGED <<doc, notes, nextId, storeModels, storeTouched, pureVars>>

\* LookupReply as it would be if the answer to notesInfo were not looked at:
\* every record with an id is put with the new ones
LookupReplyAllNew(r, o) ==
    /\ runs[r].pc = "notesInfo"
    /\ LET run    == runs[r]
           sorted == [run EXCEPT !.newCards = Append(@, run.cursor)]
       IN  runs' = [runs EXCEPT ![r] =
                        IF o = "throw" THEN finish(noted(run, FALSE), "rejected")
                        ELSE lookupFrom(noted(sorted, o = "ok"), run.cursor + 1)]
    /\ UNCHANGED <<doc, notes, nextId, storeModels, storeDecks, storeTouched, pureVars>>

\* lines 552-561: the answer to notesInfo for the record at the cursor; the
\* request is not in a try block, so a thrown error rejects ankify
LookupReply(r, o) ==
    /\ runs[r].pc = "notesInfo"
    /\ LET run        == runs[r]
           noteExists == o = "ok" /\ run.flashcardBlocks[run.cursor].flashcard.id \in notes
           sorted     == IF noteExists
                         THEN [run EXCEPT !.existingCards = Append(@, run.cursor)]
                         ELSE [run EXCEPT !.newCards = Append(@, run.cursor)]
       IN  runs' = [runs EXCEPT ![r] =
                        IF o = "throw" THEN finish(noted(run, FALSE), "rejected")
                        ELSE lookupFrom(noted(sorted, o = "ok"), run.cursor + 1)]
    /\ UNCHANGED <<doc, notes, nextId, storeModels, storeDecks, storeTouched, pureVars>>

\* result.result of addNotes for n notes of which those in `added` (indices,
\* 1-based) were created: an id per created note, null for the others
addNotesResult(n, added) ==
    [i \in 1..n |->
        IF i \in added THEN nextId + Cardinality({j \in added : j < i}) ELSE Undefined]

\* lines 570-609: the answer to addNotes and the write-back.  addNotesToAnki
\* has no try block (a thrown error rejects ankify) and gives [] for an answer
\* whose result is no array
AddNotesReply(r, o, added) ==
    /\ runs[r].pc = "addNotes"
    /\ added \subseteq 1..Len(runs[r].newCards)
    /\ o # "ok" => added = {}
    /\ LET run    == runs[r]
           newIds == IF o = "ok" THEN addNotesResult(Len(run.newCards), added) ELSE <<>>
           w      == writeBack([doc |-> doc,
                                flashcardBlocks |-> run.flashcardBlocks,
                                edits |-> run.edits,
                                linesInserted |-> run.linesInserted,
                                cardsAdded |-> run.cardsAdded],
                               run.newCards, newIds, 0)
           after  == [noted(run, o = "ok" /\ added = 1..Len(run.newCards)) EXCEPT
                        !.newIds = newIds,
                        !.created = TRUE,
                        !.flashcardBlocks = w.flashcardBlocks,
                        !.edits = w.edits,
                        !.linesInserted = w.linesInserted,
                        !.cardsAdded = w.cardsAdded]
       IN  /\ notes' = notes \cup {newIds[i] : i \in added}
           /\ nextId' = nextId + Cardinality(added)
           /\ doc' = IF o = "throw" THEN doc ELSE w.doc
           /\ runs' = [runs EXCEPT ![r] =
                           IF o = "throw" THEN finish(noted(run, FALSE), "rejected")
                           ELSE batchUpdate(after)]
    /\ UNCHANGED <<storeModels, storeDecks, storeTouched, pureVars>>

\* changeDeck: the answer to its notesInfo; an error (thrown, or raised on a
\* result that is no list) is caught there and updateNotesInAnki goes on
ChangeDeckInfoReply(r, o) ==
    /\ runs[r].pc = "changeDeckInfo"
    /\ runs' = [runs EXCEPT ![r] =
                    IF o = "ok" THEN goto(noted(@, TRUE), "changeDeck")
                    ELSE goto(noted(@, FALSE), "multi")]
    /\ UNCHANGED <<doc, notes, nextId, storeModels, storeDecks, storeTouched, pureVars>>

\* changeDeck: the answer to changeDeck
ChangeDeckReply(r, o) ==
    /\ runs[r].pc = "changeDeck"
    /\ runs' = [runs EXCEPT ![r] = goto(noted(@, o = "ok"), "multi")]
    /\ UNCHANGED <<doc, notes, nextId, storeModels, storeDecks, storeTouched, pureVars>>

\* the ids of the records of existingCards
existingIds(run) ==
    {run.flashcardBlocks[run.existingCards[i]].flashcard.id : i \in DOMAIN run.existingCards}

\* lines 614-622: the answer to the multi request of updateNotesInAnki, in
\* which the updateNote actions of the notes in `updated` succeeded; a thrown
\* error is caught in updateNotesInAnki.  Then syncFlashcardsWithAnki returns.
MultiReply(r, o, updated) ==
    /\ runs[r].pc = "multi"
    /\ updated \subseteq existingIds(runs[r])
    /\ o # "ok" => updated = {}
    /\ runs' = [runs EXCEPT ![r] =
                    goto([noted(@, o = "ok" /\ updated = existingIds(@)) EXCEPT
                            !.updated = updated,
                            !.cardsUpdated = Len(runs[r].existingCards)],
                         "synced")]
    /\ UNCHANGED <<doc, notes, nextId, storeModels, storeDecks, storeTouched, pureVars>>

\* deleteMarkedFlashcards up to its await: without a marker it returns 0 and
\* ankify returns its counts, else the markers are cut out of the document and
\* deleteNotes is awaited
DeleteMarked(r) ==
    /\ runs[r].pc = "synced"
    /\ LET portions == deleteMatches(getValue(doc), 1)
       IN  IF portions = <<>>
           THEN /\ runs' = [runs EXCEPT ![r] = finish(@, "counts")]
                /\ doc' = doc
           ELSE /\ runs' = [runs EXCEPT ![r] =
                               goto([@ EXCEPT !.noteIds =
                                        [i \in DOMAIN portions |-> portions[i].noteId]],
                                    "deleteNotes")]
                /\ doc' = removePortions(doc, portions, Len(portions) - 1)
    /\ UNCHANGED <<notes, nextId, storeModels, storeDecks, storeTouched, pureVars>>

\* the answer to deleteNotes (awaited outside any try block), then ankify
\* returns its counts
DeleteNotesReply(r, o) ==
    /\ runs[r].pc = "deleteNotes"
    /\ notes' = IF o = "ok" THEN notes \ {runs[r].noteIds[i] : i \in DOMAIN runs[r].noteIds}
                ELSE notes
    /\ runs' = [runs EXCEPT ![r] =
                    IF o = "throw" THEN finish(noted(@, FALSE), "rejected")
                    ELSE finish([noted(@, o = "ok") EXCEPT !.cardsDeleted = Len(runs[r].noteIds)],
                                "counts")]
    /\ UNCHANGED <<doc, nextId, storeModels, storeDecks, storeTouched, pureVars>>

\* a note is deleted in Anki itself, between the two runs
NoteDeletedInAnki ==
    /\ runs[1].pc = "done"
    /\ runs[2].pc = "idle"
    /\ ~storeTouched
    /\ \E n \in notes : notes' = notes \ {n}
    /\ storeTouched' = TRUE
    /\ UNCHANGED <<doc, nextId, storeModels, storeDecks, runs, pureVars>>

\* one step of run r: the requests of the set-up (version, models, deck) end
\* in one of setupOuts, those of the synchronization and the deletion in one
\* of syncOuts; with inFull, addNotes creates and multi updates every note
RunStepOf(r, setupOuts, syncOuts, inFull) ==
    \/ Ankify(r)
    \/ \E o \in setupOuts : VersionReply(r, o)
    \/ \E o \in setupOuts, hasView \in BOOLEAN : ModelNamesReply(r, o, hasView)
    \/ \E o \in setupOuts, hasView \in BOOLEAN : CreateModelReply(r, o, hasView)
    \/ \E o \in setupOuts : DeckNamesReply(r, o)
    \/ \E o \in setupOuts : CreateDeckReply(r, o)
    \/ \E o \in syncOuts : LookupReply(r, o)
    \/ \E o \in syncOuts, added \in SUBSET (1..Len(runs[r].newCards)) :
           /\ inFull => added = 1..Len(runs[r].newCards)
           /\ AddNotesReply(r, o, added)
    \/ \E o \in syncOuts : ChangeDeckInfoReply(r, o)
    \/ \E o \in syncOuts : ChangeDeckReply(r, o)
    \/ \E o \in syncOuts, updated \in SUBSET existingIds(runs[r]) :
           /\ inFull => updated = existingIds(runs[r])
           /\ MultiReply(r, o, updated)
    \/ DeleteMarked(r)
    \/ \E o \in syncOuts : DeleteNotesReply(r, o)

\* one step of run r, every request free to fail
RunStep(r) == RunStepOf(r, Outcomes, Outcomes, FALSE)

InitSync ==
    /\ \/ doc \in SmallDocs /\ notes \in SUBSET {7}
       \/ doc \in LongDocs /\ notes \in SUBSET {7, 8}
    /\ nextId = FirstNewId
    /\ storeModels = {"ObsidianBasic", "ObsidianCloze"}
    /\ storeDecks = {<<"D", "e", "f", "a", "u", "l", "t">>}
    /\ storeTouched = FALSE
    /\ runs = [r \in RunIds |-> IdleRun]

NoResult == [fields |-> <<>>, reverseCard |-> FALSE]

\* no call of splitIntoFields
NoSplit == sfBody = <<>> /\ sfState = "off" /\ sfResult = NoResult

\* no call of convertToAnkiCloze
NoCloze ==
    /\ czInput = [form |-> "none", open |-> 0, close |-> 0, num |-> <<>>, text |-> <<>>,
                  hint |-> <<>>, before |-> <<>>, after |-> <<>>]
    /\ czInside = "text" /\ czState = "off"
    /\ czResult = <<>> /\ czAgain = <<>>

\* no call of getFlashcardBodies
NoBodies == gbLines = <<>> /\ gbState = "off" /\ gbResult = <<>>

\* no call of getBlockSequence
NoBlocks == bsInput = <<>> /\ bsState = "off" /\ bsResult = <<>>

\* no call of makeFlashcards on its own
NoCards == mfBlock = <<>> /\ mfState = "off" /\ mfResult = <<>>

\* no call of getHeadersForLine
NoHeaders == hlInput = <<>> /\ hlState = "off" /\ hlResult = <<>>

\* no call of extractYamlProperties
NoYaml == ymInput = <<>> /\ ymState = "off" /\ ymResult = <<>>

NoOthers == NoBlocks /\ NoCards /\ NoHeaders /\ NoYaml

\* one run of ankify on a document, every request free to fail
Init ==
    /\ InitSync
    /\ NoSplit /\ NoCloze /\ NoBodies /\ NoOthers

Next == RunStep(1)

Spec == Init /\ [][Next]_vars

\* A second run of ankify after the first has ended.  The set-up of the first
\* run succeeds and its synchronization is free to fail; the store answers
\* every request of the second run.
NextTwice ==
    \/ RunStepOf(1, {"ok"}, Outcomes, FALSE)
    \/ runs[1].pc = "done" /\ RunStepOf(2, {"ok"}, {"ok"}, TRUE)
    \/ NoteDeletedInAnki

SpecTwice == Init /\ [][NextTwice]_vars

(***************************************************************************)
(* Two runs of ankify on the same document at the same time: the ribbon    *)
(* icon is clicked again while the first run waits for the store.  Nothing *)
(* in onload or in ankify keeps the second run from starting.  The store   *)
(* answers every request.                                                  *)
(***************************************************************************)
\* longest document of the overlapping runs, in lines
MaxOverlapLines == 2

\* the lines of their documents: a card, an identifier line, a deletion marker
OverlapDocLines == {CardLine, IdLine(7), DeleteLine(7)}

OverlapDocs == UNION {[1..n -> OverlapDocLines] : n \in 1..MaxOverlapLines}

InitOverlap ==
    /\ doc \in OverlapDocs
    /\ notes \in SUBSET {7}
    /\ nextId = FirstNewId
    /\ storeModels = {"ObsidianBasic", "ObsidianCloze"}
    /\ storeDecks = {<<"D", "e", "f", "a", "u", "l", "t">>}
    /\ storeTouched = FALSE
    /\ runs = [r \in RunIds |-> IdleRun]
    /\ NoSplit /\ NoCloze /\ NoBodies /\ NoOthers

NextOverlap ==
    \/ RunStepOf(1, {"ok"}, {"ok"}, TRUE)
    \/ RunStepOf(2, {"ok"}, {"ok"}, TRUE)

SpecOverlap == InitOverlap /\ [][NextOverlap]_vars

(***************************************************************************)
(* Field splitter on its own: every body over SplitAlphabet of at most     *)
(* MaxBody characters.                                                     *)
(***************************************************************************)
SplitAlphabet == {"a", ":", "{", "}"}

Bodies == UNION {[1..n -> SplitAlphabet] : n \in 0..MaxBody}

\* no run of ankify
NoSync ==
    /\ doc = << <<>> >>
    /\ notes = {}
    /\ nextId = FirstNewId
    /\ storeModels = {}
    /\ storeDecks = {}
    /\ storeTouched = FALSE
    /\ runs = [r \in RunIds |-> IdleRun]

\* the card body {a::b}::c
BraceGroupBody == <<"{", "a", ":", ":", "b", "}", ":", ":", "c">>

InitSplit ==
    /\ sfBody \in Bodies \cup {BraceGroupBody}
    /\ sfState = "input"
    /\ sfResult = NoResult
    /\ NoSync
    /\ NoCloze /\ NoBodies /\ NoOthers

CallSplitIntoFields ==
    /\ sfState = "input"
    /\ sfResult' = splitIntoFields(sfBody)
    /\ sfState' = "done"
    /\ UNCHANGED sfBody
    /\ UNCHANGED <<syncVars, clozeVars, bodiesVars, otherVars>>

NextSplit == CallSplitIntoFields

SpecSplit == InitSplit /\ [][NextSplit]_vars

(***************************************************************************)
(* convertToAnkiCloze on its own: formatFlashcardField hands it one        *)
(* segment of a field, plain text, a code block or a math block (lines     *)
(* 801-809).  The content is one cloze of some surface form, with text     *)
(* before and after it.                                                    *)
(***************************************************************************)
MaxBraces == 3

MaxText == 2

ClozeAlphabet == {"a", "c", "1", " "}

\* a text that is itself a highlight: ==ab==
HighlightText == <<"=", "=", "a", "b", "=", "=">>

\* the texts of a cloze: short ones, and the highlight
Texts == UNION {[1..n -> ClozeAlphabet] : n \in 1..MaxText} \cup {HighlightText}

\* the hints of a cloze: none, or one
Hints == {<<>>, <<"h">>}

\* the group numbers written in the content
Nums == {<<"1">>, <<"2">>, <<"1", "0">>}

\* what stands before and after the cloze
Around == {<<>>, <<"a">>}

\* n times the character ch
repeat(ch, n) == [i \in 1..n |-> ch]

\* the content for an input: {..{text::hint}..}, {{cN::text::hint}},
\* {N:text:hint} or ==text==
contentOf(in) ==
    in.before
    \o (CASE in.form = "braces" ->
                repeat("{", in.open) \o in.text
                    \o (IF in.hint # <<>> THEN <<":", ":">> \o in.hint ELSE <<>>)
                    \o repeat("}", in.close)
          [] in.form = "canonical" -> canonicalCloze(in.num, in.text, in.hint)
          [] in.form = "explicit" ->
                <<"{">> \o in.num \o <<":">> \o in.text
                    \o (IF in.hint # <<>> THEN <<":">> \o in.hint ELSE <<>>) \o <<"}">>
          [] in.form = "highlight" -> <<"=", "=">> \o in.text \o <<"=", "=">>
          [] OTHER -> <<>>)
    \o in.after

\* {{{word}}}
TripleBraces ==
    [form |-> "braces", open |-> 3, close |-> 3, num |-> <<>>, text |-> <<"w", "o", "r", "d">>,
     hint |-> <<>>, before |-> <<>>, after |-> <<>>]

\* {{word}
OneBraceShort ==
    [form |-> "braces", open |-> 2, close |-> 1, num |-> <<>>, text |-> <<"w", "o", "r", "d">>,
     hint |-> <<>>, before |-> <<>>, after |-> <<>>]

\* {{c1::answer::hint}}
CanonicalWithHint ==
    [form |-> "canonical", open |-> 2, close |-> 2, num |-> <<"1">>, text |-> <<"a", "n", "s", "w", "e", "r">>,
     hint |-> <<"h", "i", "n", "t">>, before |-> <<>>, after |-> <<>>]

\* {2:capital:hint}
ExplicitWithHint ==
    [form |-> "explicit", open |-> 1, close |-> 1, num |-> <<"2">>, text |-> <<"c", "a", "p", "i", "t", "a", "l">>,
     hint |-> <<"h", "i", "n", "t">>, before |-> <<>>, after |-> <<>>]

\* ==Paris==
HighlightParis ==
    [form |-> "highlight", open |-> 0, close |-> 0, num |-> <<>>, text |-> <<"P", "a", "r", "i", "s">>,
     hint |-> <<>>, before |-> <<>>, after |-> <<>>]

\* the inputs the documentation of the normalizer names
ClozeExamples == {TripleBraces, OneBraceShort, CanonicalWithHint, ExplicitWithHint, HighlightParis}

ClozeInputs ==
    [form : {"braces"}, open : 1..MaxBraces, close : 1..MaxBraces, num : {<<>>},
     text : Texts, hint : Hints, before : Around, after : Around]
    \cup [form : {"canonical"}, open : {2}, close : {2}, num : Nums,
          text : Texts, hint : Hints, before : Around \cup {<<"{">>}, after : Around \cup {<<"}">>}]
    \cup [form : {"explicit"}, open : {1}, close : {1}, num : Nums,
          text : Texts, hint : Hints, before : Around, after : Around]
    \cup [form : {"highlight"}, open : {0}, close : {0}, num : {<<>>},
          text : Texts, hint : {<<>>}, before : Around, after : Around]

InitCloze ==
    /\ czInput \in ClozeInputs \cup ClozeExamples
    /\ czInside \in {"text", "code", "latex"}
    /\ czState = "input"
    /\ czResult = <<>>
    /\ czAgain = <<>>
    /\ NoSync /\ NoSplit /\ NoBodies /\ NoOthers

\* formatFlashcardField lines 801-809: convertToAnkiCloze(formatted,
\* insideCode, insideLatex) for a segment of the kind czInside
CallConvertToAnkiCloze ==
    /\ czState = "input"
    /\ czResult' = convertToAnkiCloze(contentOf(czInput), czInside = "code", czInside = "latex")
    /\ czState' = "done"
    /\ UNCHANGED <<czInput, czInside, czAgain>>
    /\ UNCHANGED <<syncVars, splitVars, bodiesVars, otherVars>>

\* the result is normalized once more
CallConvertAgain ==
    /\ czState = "done"
    /\ czAgain' = convertToAnkiCloze(czResult, czInside = "code", czInside = "latex")
    /\ czState' = "again"
    /\ UNCHANGED <<czInput, czInside, czResult>>
    /\ UNCHANGED <<syncVars, splitVars, bodiesVars, otherVars>>

NextCloze == CallConvertToAnkiCloze \/ CallConvertAgain

SpecCloze == InitCloze /\ [][NextCloze]_vars

(***************************************************************************)
(* getFlashcardBodies on its own, over short documents whose lines are     *)
(* fences, math fences, cards, plain text, a line ending with a colon,     *)
(* the continuation lines and the empty line.                              *)
(***************************************************************************)
\* longest document handed to getFlashcardBodies, in lines
MaxBodyLines == 4

ColonLine == <<"Q", ":">>

EmptyLine == <<>>

SeparatorLine == <<":", ":", "A">>

NumberedLine == <<"1", ".", " ", "x">>

BodyLines == {Fence, MathFence, CardLine, TextLine, ColonLine, BulletLine, IdLine(7), EmptyLine,
              SeparatorLine, NumberedLine}

BodyDocs == UNION {[1..n -> BodyLines] : n \in 1..MaxBodyLines}

InitBodies ==
    /\ gbLines \in BodyDocs
    /\ gbState = "input"
    /\ gbResult = <<>>
    /\ NoSync /\ NoSplit /\ NoCloze /\ NoOthers

CallGetFlashcardBodies ==
    /\ gbState = "input"
    /\ gbResult' = getFlashcardBodies(joinLines(gbLines))
    /\ gbState' = "done"
    /\ UNCHANGED gbLines
    /\ UNCHANGED <<syncVars, splitVars, clozeVars, otherVars>>

NextBodies == CallGetFlashcardBodies

SpecBodies == InitBodies /\ [][NextBodies]_vars

(***************************************************************************)
(* One run of ankify on documents with deletion markers: lines delete ^123 *)
(* and delete ^7 next to a card, its identifier line, text and the empty   *)
(* line (a text ending with a newline has an empty last line).             *)
(***************************************************************************)
\* longest document drawn from DeleteDocLines, in lines
MaxDeleteLines == 2

DeleteDocLines == {DeleteLine(123), DeleteLine(7), EmptyLine, TextLine, CardLine, IdLine(7)}

DeleteDocs == UNION {[1..n -> DeleteDocLines] : n \in 1..MaxDeleteLines}

\* the document text delete ^123 followed by a newline
DeleteOnlyDoc == <<DeleteLine(123), EmptyLine>>

InitDelete ==
    /\ doc \in DeleteDocs
    /\ notes \in SUBSET {7, 123}
    /\ nextId = FirstNewId
    /\ storeModels = {"ObsidianBasic", "ObsidianCloze"}
    /\ storeDecks = {<<"D", "e", "f", "a", "u", "l", "t">>}
    /\ storeTouched = FALSE
    /\ runs = [r \in RunIds |-> IdleRun]
    /\ NoSplit /\ NoCloze /\ NoBodies /\ NoOthers

SpecDelete == InitDelete /\ [][Next]_vars

(***************************************************************************)
(* getBlockSequence on its own: a short text of distinct characters and    *)
(* two short lists of spans of it.  getCodeBlocks and getLatexBlocks push  *)
(* the matches of the block regex and then those of the inline regex, so a *)
(* list is in no order and its spans may overlap; every match holds its    *)
(* delimiters, so no span is empty.                                        *)
(***************************************************************************)
\* longest text handed to getBlockSequence
MaxContent == 3

\* most spans handed to getBlockSequence, code and math spans together
MaxSpans == 3

SpanText == <<"a", "b", "c", "d", "e">>

SpansOf(n) == {[start |-> a, end |-> b] : a \in 0..(n - 1), b \in 1..n} \cap
              {sp \in [start : 0..n, end : 0..n] : sp.start < sp.end}

InitBlocks ==
    /\ \E n \in 0..MaxContent : \E i \in 0..MaxSpans : \E j \in 0..(MaxSpans - i) :
           \E c \in [1..i -> SpansOf(n)], l \in [1..j -> SpansOf(n)] :
               bsInput = [content |-> SubSeq(SpanText, 1, n), code |-> c, latex |-> l]
    /\ bsState = "input"
    /\ bsResult = <<>>
    /\ NoSync /\ NoSplit /\ NoCloze /\ NoBodies
    /\ NoCards /\ NoHeaders /\ NoYaml

CallGetBlockSequence ==
    /\ bsState = "input"
    /\ bsResult' = getBlockSequence(bsInput.content, <<bsInput.code, bsInput.latex>>)
    /\ bsState' = "done"
    /\ UNCHANGED bsInput
    /\ UNCHANGED <<syncVars, splitVars, clozeVars, bodiesVars, cardVars, headerVars, yamlVars>>

NextBlocks == CallGetBlockSequence

SpecBlocks == InitBlocks /\ [][NextBlocks]_vars

(***************************************************************************)
(* getHeadersForLine on its own: short documents of header lines of the    *)
(* levels 1..MaxLevel, a line of ten # and a text line, some documents     *)
(* with a tag line, and a line of the document (ankify passes a block's    *)
(* startLine).                                                             *)
(***************************************************************************)
\* deepest header level of the documents
MaxLevel == 4

\* longest document handed to getHeadersForLine, in lines
MaxHeaderLines == 4

HeaderLine(n) == repeat("#", n) \o <<" ", "h">>

TagLine == <<"#", "t">>

HeaderDocLines == {HeaderLine(n) : n \in 1..MaxLevel} \cup {HeaderLine(10), TextLine}

\* documents with a tag line, which is no header
TagDocs == {<<TagLine, TextLine>>, <<HeaderLine(1), TagLine, TextLine>>, <<TagLine, HeaderLine(2)>>}

InitHeaders ==
    /\ \/ \E n \in 1..MaxHeaderLines : \E d \in [1..n -> HeaderDocLines] : \E l \in 0..(n - 1) :
              hlInput = [lines |-> d, line |-> l]
       \/ \E d \in TagDocs : \E l \in 0..(Len(d) - 1) : hlInput = [lines |-> d, line |-> l]
    /\ hlState = "input"
    /\ hlResult = <<>>
    /\ NoSync /\ NoSplit /\ NoCloze /\ NoBodies
    /\ NoBlocks /\ NoCards /\ NoYaml

CallGetHeadersForLine ==
    /\ hlState = "input"
    /\ hlResult' = getHeadersForLine(joinLines(hlInput.lines), hlInput.line)
    /\ hlState' = "done"
    /\ UNCHANGED hlInput
    /\ UNCHANGED <<syncVars, splitVars, clozeVars, bodiesVars, blockVars, cardVars, yamlVars>>

NextHeaders == CallGetHeadersForLine

SpecHeaders == InitHeaders /\ [][NextHeaders]_vars

(***************************************************************************)
(* extractYamlProperties on its own, and what ankify does with its result  *)
(* (lines 388-392).  The documents are lines ---, a line of text and the   *)
(* empty line; yaml.load, which is no part of the repository, is free to   *)
(* throw or to return undefined (empty document), null, a scalar or a      *)
(* mapping with or without deck and tags.                                  *)
(***************************************************************************)
\* longest document handed to extractYamlProperties, in lines
MaxYamlLines == 4

DashLine == <<"-", "-", "-">>

YamlDocLines == {DashLine, TextLine, EmptyLine}

YamlDocs == UNION {[1..n -> YamlDocLines] : n \in 1..MaxYamlLines}

DeckValues == {JsUndefined, JsString(<<>>), JsString(<<"M">>)}

TagValues ==
    {JsUndefined, JsNumber(5), JsString(<<" ", "a", " ", " ", "b">>),
     [kind |-> "array", items |-> <<JsString(<<"a">>), JsNumber(7)>>]}

\* what yaml.load can do
Loaded ==
    {[kind |-> "throws"], JsUndefined, JsNull, JsString(<<"s">>), JsNumber(5)}
    \cup {[kind |-> "mapping", deck |-> d, tags |-> t] : d \in DeckValues, t \in TagValues}

\* yaml.load is not called when the text has no front matter
NotLoaded == [kind |-> "unused"]

InitYaml ==
    /\ \E d \in YamlDocs :
           \E l \in (IF yamlMatchEnd(joinLines(d)) = 0 THEN {NotLoaded} ELSE Loaded) :
               ymInput = [content |-> joinLines(d), loaded |-> l]
    /\ ymState = "input"
    /\ ymResult = <<>>
    /\ NoSync /\ NoSplit /\ NoCloze /\ NoBodies
    /\ NoBlocks /\ NoCards /\ NoHeaders

CallExtractYamlProperties ==
    /\ ymState = "input"
    /\ ymResult' = extractYamlProperties(ymInput.content, ymInput.loaded)
    /\ ymState' = "done"
    /\ UNCHANGED ymInput
    /\ UNCHANGED <<syncVars, splitVars, clozeVars, bodiesVars, blockVars, cardVars, headerVars>>

\* ankify lines 389-392: globalTags.push('obsidian'), deck || defaultDeck
AnkifyChoosesDeck ==
    /\ ymState = "done"
    /\ ymResult.kind = "returned"
    /\ ymResult' = [kind |-> "deck",
                    deck |-> IF truthy(ymResult.deck) THEN ymResult.deck.value ELSE DefaultDeck,
                    tags |-> Append(ymResult.tags, <<"o", "b", "s", "i", "d", "i", "a", "n">>)]
    /\ ymState' = "deck"
    /\ UNCHANGED ymInput
    /\ UNCHANGED <<syncVars, splitVars, clozeVars, bodiesVars, blockVars, cardVars, headerVars>>

\* extractYamlProperties threw: ankify has no try block around the call
AnkifyRejects ==
    /\ ymState = "done"
    /\ ymResult.kind = "thrown"
    /\ ymState' = "rejected"
    /\ UNCHANGED <<ymInput, ymResult>>
    /\ UNCHANGED <<syncVars, splitVars, clozeVars, bodiesVars, blockVars, cardVars, headerVars>>

NextYaml == CallExtractYamlProperties \/ AnkifyChoosesDeck \/ AnkifyRejects

SpecYaml == InitYaml /\ [][NextYaml]_vars

(***************************************************************************)
(* makeFlashcards on its own, and what syncFlashcardsWithAnki writes back  *)
(* for its records.  The documents are one line over SplitAlphabet, with   *)
(* or without the token ^7 between blanks somewhere in it, followed or not *)
(* by the identifier line ^8; the blocks are those getFlashcardBodies      *)
(* finds in them.                                                          *)
(***************************************************************************)
\* longest first line of a document, the token not counted
MaxCardLine == 4

\* the token ^7 between two blanks
IdToken == <<" ", "^", "7", " ">>

CardTexts == UNION {[1..n -> SplitAlphabet] : n \in 1..MaxCardLine}

\* a text, and the text with the token put in at any place
CardFirstLines ==
    CardTexts
    \cup UNION {{slice(t, 1, k) \o IdToken \o slice(t, k + 1, Len(t)) : k \in 0..Len(t)} :
                   t \in CardTexts}

CardDocs == {<<l>> : l \in CardFirstLines} \cup {<<l, IdLine(8)>> : l \in CardFirstLines}

\* the pass before any write-back: w of writeBack
NothingWritten(d) ==
    [doc |-> d, flashcardBlocks |-> <<>>, edits |-> <<>>, linesInserted |-> 0, cardsAdded |-> 0]

InitCards ==
    /\ \E d \in CardDocs :
           /\ getFlashcardBodies(getValue(d)) # <<>>
           /\ mfBlock = [doc |-> d, bodies |-> getFlashcardBodies(getValue(d))]
           /\ mfResult = NothingWritten(d)
    /\ mfState = "input"
    /\ NoSync /\ NoSplit /\ NoCloze /\ NoBodies
    /\ NoBlocks /\ NoHeaders /\ NoYaml

\* ankify lines 395-415: the records of the blocks, each with its Source
CallMakeFlashcards ==
    /\ mfState = "input"
    /\ mfResult' = [mfResult EXCEPT
                      !.flashcardBlocks =
                          withSource(makeFlashcards(mfBlock.bodies, DefaultDeck, GlobalTags))]
    /\ mfState' = "cards"
    /\ UNCHANGED mfBlock
    /\ UNCHANGED <<syncVars, splitVars, clozeVars, bodiesVars, blockVars, headerVars, yamlVars>>

\* lines 549-609 when the store knows none of the records: all of them are
\* new, addNotes answers with fresh ids and the ids are written back
WriteBackNew ==
    /\ mfState = "cards"
    /\ mfResult.flashcardBlocks # <<>>
    /\ mfResult' = writeBack(mfResult,
                             [i \in DOMAIN mfResult.flashcardBlocks |-> i],
                             [i \in DOMAIN mfResult.flashcardBlocks |-> FirstNewId + i - 1],
                             0)
    /\ mfState' = "written"
    /\ UNCHANGED mfBlock
    /\ UNCHANGED <<syncVars, splitVars, clozeVars, bodiesVars, blockVars, headerVars, yamlVars>>

\* lines 549-563 and 611-615 when the store knows every record: all of them
\* are updated and nothing is written to the document
UpdateExisting ==
    /\ mfState = "cards"
    /\ mfResult.flashcardBlocks # <<>>
    /\ \A k \in DOMAIN mfResult.flashcardBlocks :
           mfResult.flashcardBlocks[k].flashcard.id # Undefined
    /\ mfState' = "updated"
    /\ UNCHANGED <<mfBlock, mfResult>>
    /\ UNCHANGED <<syncVars, splitVars, clozeVars, bodiesVars, blockVars, headerVars, yamlVars>>

NextCards == CallMakeFlashcards \/ WriteBackNew \/ UpdateExisting

SpecCards == InitCards /\ [][NextCards]_vars

(***************************************************************************)
(* Claims about one run of ankify (checked under Spec).                    *)
(***************************************************************************)
\* the requests of run r that `from` sent with action `action`, as indices
\* into the run's list of requests
CallsOf(r, action, from) ==
    {i \in DOMAIN runs[r].calls :
        runs[r].calls[i].action = action /\ runs[r].calls[i].from = from}

Lookups(r) == CallsOf(r, "notesInfo", "syncFlashcardsWithAnki")

Creates(r) == CallsOf(r, "addNotes", "addNotesToAnki")

\* the requests of updateNotesInAnki: changeDeck's two and the multi
Updates(r) ==
    CallsOf(r, "notesInfo", "changeDeck") \cup CallsOf(r, "changeDeck", "changeDeck")
        \cup CallsOf(r, "multi", "updateNotesInAnki")

\* where the run stands from the end of the write-back to the end of
\* syncFlashcardsWithAnki
WrittenBack(r) ==
    /\ runs[r].pc \in {"changeDeckInfo", "changeDeck", "multi", "synced"}
    /\ runs[r].newCards # <<>> => runs[r].created

\* the cards makeFlashcards gave run r, as they were before the write-back
ParsedCards(r) == makeFlashcards(getFlashcardBodies(runs[r].content), DefaultDeck, GlobalTags)

\* the write-backs of run r of one kind, as indices into the run's edits
EditsOf(r, kind) == {i \in DOMAIN runs[r].edits : runs[r].edits[i].kind = kind}

\* a line that is an identifier line: ^ and digits, nothing else
IsIdLine(l) == Len(l) >= 2 /\ l[1] = "^" /\ digitRun(l, 2) = Len(l) - 1

\* the number of identifier lines run r inserted above card c
Shift(r, c) == Cardinality({i \in EditsOf(r, "insert") : runs[r].edits[i].card < c})

\* the lines (0-based) that card c of run r takes in the document after the
\* write-back: its block, and the identifier line inserted after it
Region(r, c) ==
    LET b == runs[r].flashcardBlocks[c]
    IN  (b.startLine + Shift(r, c))..
        (b.endLine + Shift(r, c)
            + (IF \E i \in EditsOf(r, "insert") : runs[r].edits[i].card = c THEN 1 ELSE 0))

\* C4: within one pass the identifier lines are inserted in ascending line
\* order; the insertion made when k lines were already inserted targets line
\* endLine + 1 + k and the inserted line stands directly after the last line
\* of its own block; three new cards whose blocks end at lines 2, 5, 9 get
\* their lines at 3, 7, 12; a record whose create failed and a stale-id
\* replacement do not increase k.
C4_InsertionOffsets ==
    WrittenBack(1) =>
        LET run     == runs[1]
            inserts == EditsOf(1, "insert")
        IN  /\ \A i \in inserts :
                   LET e == run.edits[i]
                       b == run.flashcardBlocks[e.card]
                   IN  /\ e.k = Cardinality({j \in inserts : j < i})
                       /\ e.line = b.endLine + 1 + e.k
                       /\ getLine(doc, e.line) = IdLine(e.newId)
                       /\ getLine(doc, e.line - 1) = getLine(run.docAtStart, b.endLine)
            /\ \A i, j \in inserts : i < j => run.edits[i].line < run.edits[j].line
            /\ run.linesInserted = Cardinality(inserts)
            /\ Cardinality(inserts)
                   = Cardinality({i \in DOMAIN run.newIds :
                                     /\ run.newIds[i] # Undefined
                                     /\ ParsedCards(1)[run.newCards[i]].flashcard.id = Undefined})
            /\ lineCount(doc) >= lineCount(run.docAtStart) + Cardinality(inserts)
            /\ run.docAtStart = ThreeCardDoc /\ Cardinality(inserts) = 3 =>
                   [i \in 1..3 |-> run.edits[i].line] = <<3, 7, 12>>

\* the three cards of ThreeCardDoc were created and their lines inserted
C4_Witness ==
    /\ runs[1].pc = "synced"
    /\ runs[1].docAtStart = ThreeCardDoc
    /\ Cardinality(EditsOf(1, "insert")) = 3
    /\ getLine(doc, 12) = IdLine(FirstNewId + 2)

\* C3: for every card block that carries an id the lookup does not find, a
\* successful create replaces the old id in the document in place by the new
\* one, wherever the identifier line stands in the block: after the pass the
\* block no longer holds the old id, it holds the new one, and no line was
\* inserted for it.
C3_StaleIdReplacedInPlace ==
    WrittenBack(1) =>
        \A i \in EditsOf(1, "replace") :
            LET e     == runs[1].edits[i]
                lines == {getLine(doc, n) : n \in Region(1, e.card)}
            IN  /\ IdLine(e.oldId) \notin lines
                /\ IdLine(e.newId) \in lines
                /\ ~\E j \in EditsOf(1, "insert") : runs[1].edits[j].card = e.card

\* C2: after a pass in which every store call succeeded, every card block
\* that was created or updated has exactly one identifier line in the
\* document, directly after the block's content, and its id is the id the
\* store holds for the record.
C2_OneTrailingIdLine ==
    runs[1].pc = "synced" /\ runs[1].allOk =>
        \A c \in DOMAIN runs[1].flashcardBlocks :
            LET idLines == {n \in Region(1, c) : IsIdLine(getLine(doc, n))}
                last    == CHOOSE n \in Region(1, c) : \A m \in Region(1, c) : m <= n
                id      == runs[1].flashcardBlocks[c].flashcard.id
            IN  /\ idLines = {last}
                /\ getLine(doc, last) = IdLine(id)
                /\ id \in notes

\* C5: when addNotes answers an id for some New records and none for others,
\* the pass goes on: each record with a numeric id has it written to the
\* document and is counted in cardsAdded, each record without one causes no
\* edit and is not counted, and the update of the Existing records still runs.
C5_PartialCreateGoesOn ==
    LET run == runs[1]
    IN  run.created /\ run.result # "rejected" =>
            /\ WrittenBack(1) \/ run.pc \in {"deleteNotes", "done"}
            /\ run.cardsAdded = Cardinality({i \in DOMAIN run.newIds : run.newIds[i] # Undefined})
            /\ \A i \in DOMAIN run.newCards :
                   LET mine == {j \in DOMAIN run.edits : run.edits[j].card = run.newCards[i]}
                   IN  IF newIdAt(run.newIds, i - 1) = Undefined
                       THEN mine = {}
                       ELSE /\ Cardinality(mine) = 1
                            /\ WrittenBack(1) =>
                                   \E n \in Region(1, run.newCards[i]) :
                                       includes(getLine(doc, n), IdLine(run.newIds[i]))
            /\ run.existingCards # <<>> =>
                   \/ run.pc \in {"changeDeckInfo", "changeDeck", "multi"}
                   \/ CallsOf(1, "multi", "updateNotesInAnki") # {}

\* C7: when the connectivity/version check fails, ankify returns an empty
\* result and the run edits nothing in the document and sends the store no
\* request but the version check itself (no create, update, delete, deck or
\* template call).
C7_FailedCheckDoesNothing ==
    runs[1].connected = "no" =>
        /\ runs[1].pc = "done"
        /\ runs[1].result = "empty"
        /\ doc = runs[1].docAtStart
        /\ runs[1].edits = <<>>
        /\ notes \subseteq {7, 8}
        /\ \A i \in DOMAIN runs[1].calls : runs[1].calls[i].action = "version"

\* a failed check on a document that holds a card to create
C7_Witness ==
    /\ runs[1].connected = "no"
    /\ runs[1].docAtStart = <<CardLine>>
    /\ runs[1].result = "empty"

\* C8: once the connectivity check has passed, a thrown error of any later
\* request (existence lookup, create, update, delete) is caught where the
\* request is made, so ankify returns its counts and never rejects.
C8_NoRequestErrorPropagates ==
    runs[1].connected = "yes" => runs[1].result # "rejected"

\* C6: the cardsUpdated a synchronization pass returns is the number of
\* Existing records whose update succeeded in the store.
C6_UpdatedCountsSuccesses ==
    runs[1].pc \in {"synced", "deleteNotes", "done"} =>
        runs[1].cardsUpdated = Cardinality(runs[1].updated)

\* C9: in a pass, the existence lookups of all records are answered before
\* the create request is sent, and the create request is answered and its ids
\* written back before the update is sent; no existence lookup follows a
\* create or an update.  (The update, updateNotesInAnki, is changeDeck's
\* notesInfo and changeDeck requests followed by the multi request.)
C9_LookupsThenCreateThenUpdate ==
    LET run     == runs[1]
        parsed  == ParsedCards(1)
        withId  == {c \in DOMAIN parsed : parsed[c].flashcard.id # Undefined}
        numeric == {i \in DOMAIN run.newIds : run.newIds[i] # Undefined}
    IN  /\ \A i \in Lookups(1) : \A j \in Creates(1) \cup Updates(1) : i < j
        /\ \A i \in Creates(1) : \A j \in Updates(1) : i < j
        /\ Creates(1) \cup Updates(1) # {} =>
               /\ Cardinality(Lookups(1)) = Cardinality(withId)
               /\ Len(run.newCards) + Len(run.existingCards) = Len(run.flashcardBlocks)
        /\ Updates(1) # {} /\ run.newCards # <<>> =>
               /\ run.created
               /\ Cardinality(Creates(1)) = 1
               /\ Len(run.edits) = Cardinality(numeric)

\* a pass that looked up, created and updated
C9_Witness ==
    /\ runs[1].pc = "synced"
    /\ Lookups(1) # {}
    /\ Creates(1) # {}
    /\ CallsOf(1, "multi", "updateNotesInAnki") # {}
    /\ runs[1].cardsAdded >= 2

(***************************************************************************)
(* Claims about two runs of ankify in a row (checked under SpecTwice).     *)
(***************************************************************************)
\* the identifier lines of a document, in order
IdLinesOf(d) == SelectSeq(d, IsIdLine)

\* the first run returned its counts, addNotes gave every New record an id
\* and each of these ids stands in an identifier line of the document the
\* second run reads
FirstPassCompleted ==
    /\ runs[1].result = "counts"
    /\ Len(runs[1].newIds) = Len(runs[1].newCards)
    /\ \A i \in DOMAIN runs[1].newIds :
           /\ runs[1].newIds[i] # Undefined
           /\ \E n \in DOMAIN runs[2].docAtStart : runs[2].docAtStart[n] = IdLine(runs[1].newIds[i])

\* the second run is past its lookups
LookedUp(r) == runs[r].pc \in {"addNotes", "changeDeckInfo", "changeDeck", "multi", "synced",
                               "deleteNotes"}
                  \/ (runs[r].pc = "done" /\ runs[r].result = "counts")

\* C1: a second run of ankify on a document whose first pass completed with
\* every assigned id written back, the store unchanged in between, issues no
\* create: every card of the second pass carries an id, the ids the first
\* pass wrote among them, is found by the lookup and is only updated, and no
\* identifier line is inserted or changed.
C1_SecondPassCreatesNothing ==
    runs[2].pc # "idle" /\ FirstPassCompleted /\ ~storeTouched =>
        /\ Creates(2) = {}
        /\ runs[2].edits = <<>>
        /\ IdLinesOf(doc) = IdLinesOf(runs[2].docAtStart)
        /\ LookedUp(2) =>
               /\ runs[2].newCards = <<>>
               /\ Len(runs[2].existingCards) = Len(runs[2].flashcardBlocks)
               /\ \A c \in DOMAIN runs[2].flashcardBlocks :
                      runs[2].flashcardBlocks[c].flashcard.id \in notes
               /\ \A i \in DOMAIN runs[1].newIds :
                      \E c \in DOMAIN runs[2].flashcardBlocks :
                          runs[2].flashcardBlocks[c].flashcard.id = runs[1].newIds[i]

(***************************************************************************)
(* Claims about convertToAnkiCloze (checked under SpecCloze).              *)
(***************************************************************************)
\* the content with its cloze replaced by the canonical cloze of group num
Normalized(in, num) == in.before \o canonicalCloze(num, in.text, in.hint) \o in.after

\* the text of the cloze starts like a canonical cloze: c, digits, ::
LooksCanonical(in) ==
    /\ in.hint # <<>>
    /\ Len(in.text) >= 2 /\ in.text[1] = "c"
    /\ digitRun(in.text, 2) = Len(in.text) - 1

\* neither the text nor the hint of the cloze holds an =
NoEquals(in) ==
    /\ \A i \in DOMAIN in.text : in.text[i] # "="
    /\ \A i \in DOMAIN in.hint : in.hint[i] # "="

\* C12 as documented: outside math, every brace-run cloze with o opening and c closing
\* braces around a text (with optional ::hint) that is not already canonical
\* becomes {{c<N>::text[::hint]}} with N = min(o, c); with mismatched counts
\* such as {{word} the result is group 1.
C12_BraceRunGroupIsMin ==
    czState = "done" /\ czInput.form = "braces" /\ czInside # "latex" /\ ~LooksCanonical(czInput) =>
        /\ czResult = Normalized(czInput, toString(Min(czInput.open, czInput.close)))
        /\ czInput = OneBraceShort => czResult = <<"{", "{", "c", "1", ":", ":", "w", "o", "r", "d", "}", "}">>

\* C12, as the code has it: the same, for a text and a hint that hold no =
\* (in a plain-text segment a highlight ==..== inside the cloze is itself
\* rewritten by the third pass: {==ab==} gives {{c1::{{c1::ab}}}}).
C12_PlainBraceRunGroupIsMin ==
    czState = "done" /\ czInput.form = "braces" /\ czInside # "latex"
            /\ ~LooksCanonical(czInput) /\ NoEquals(czInput) =>
        /\ czResult = Normalized(czInput, toString(Min(czInput.open, czInput.close)))
        /\ czInput = OneBraceShort => czResult = <<"{", "{", "c", "1", ":", ":", "w", "o", "r", "d", "}", "}">>

\* {{word} was normalized, in a plain-text segment
C12_Witness ==
    /\ czState = "done" /\ czInput = OneBraceShort /\ czInside = "text"
    /\ czResult = <<"{", "{", "c", "1", ":", ":", "w", "o", "r", "d", "}", "}">>

\* C13 as documented: the brace-run cloze {{{word}}} normalizes to cloze
\* group number 2.
C13_TripleBracesGiveGroupTwo ==
    czState = "done" /\ czInput = TripleBraces => czResult = <<"{", "{", "c", "2", ":", ":", "w", "o", "r", "d", "}", "}">>

\* C13, as the code has it: the brace-run cloze {{{word}}} normalizes to
\* cloze group number 3, the minimum of its three opening and three closing
\* braces, in every kind of segment.
C13_TripleBracesGiveGroupThree ==
    czState = "done" /\ czInput.form = "braces" /\ czInput.open = 3 /\ czInput.close = 3
            /\ ~LooksCanonical(czInput) /\ NoEquals(czInput) =>
        /\ czResult = Normalized(czInput, <<"3">>)
        /\ czInput = TripleBraces => czResult = <<"{", "{", "c", "3", ":", ":", "w", "o", "r", "d", "}", "}">>

\* {{{word}}} was normalized
C13_Witness ==
    /\ czState = "done" /\ czInput = TripleBraces
    /\ czResult = <<"{", "{", "c", "3", ":", ":", "w", "o", "r", "d", "}", "}">>

C15_ExplicitNumberKept ==
    czState = "done" /\ czInput.form = "explicit" =>
        /\ czResult = Normalized(czInput, czInput.num)
        /\ replaceBraceClozes(contentOf(czInput), 1, czInside = "latex") = contentOf(czInput)
        /\ czInput = ExplicitWithHint => czResult = <<"{", "{", "c", "2", ":", ":", "c", "a", "p", "i", "t", "a", "l", ":", ":", "h", "i", "n", "t", "}", "}">>

\* C15, as the code has it: the same, for a text and a hint that hold no =
\* (in a plain-text segment {1:==ab==} becomes {{c1::{{c1::ab}}}}).
C15_PlainExplicitNumberKept ==
    czState = "done" /\ czInput.form = "explicit" /\ NoEquals(czInput) =>
        /\ czResult = Normalized(czInput, czInput.num)
        /\ replaceBraceClozes(contentOf(czInput), 1, czInside = "latex") = contentOf(czInput)
        /\ czInput = ExplicitWithHint => czResult = Normalized(ExplicitWithHint, <<"2">>)

\* {2:capital:hint} was normalized
C15_Witness ==
    /\ czState = "done" /\ czInput = ExplicitWithHint
    /\ czResult = <<"{", "{", "c", "2", ":", ":", "c", "a", "p", "i", "t", "a", "l", ":", ":", "h", "i", "n", "t", "}", "}">>

\* C16: in a plain-text segment every highlight span ==text== with non-empty
\* text that holds no = becomes {{c1::text}} (==Paris== gives {{c1::Paris}});
\* inside a code block or a math span it is left untouched.
C16_HighlightBecomesGroupOne ==
    czState = "done" /\ czInput.form = "highlight" /\ czInput.text # <<>> /\ NoEquals(czInput) =>
        /\ czInside = "text" => czResult = Normalized(czInput, <<"1">>)
        /\ czInside # "text" => czResult = contentOf(czInput)
        /\ czInput = HighlightParis /\ czInside = "text" => czResult = <<"{", "{", "c", "1", ":", ":", "P", "a", "r", "i", "s", "}", "}">>

(***************************************************************************)
(* Claims about splitIntoFields (checked under SpecSplit).                 *)
(***************************************************************************)
\* brace depth in front of character i: opening minus closing braces before it
BraceDepth(s, i) ==
    Cardinality({j \in 1..(i - 1) : s[j] = "{"}) - Cardinality({j \in 1..(i - 1) : s[j] = "}"})

\* a separator run: a maximal run of n >= 2 colons starting at i at brace depth 0
IsSeparatorRun(s, i, n) ==
    /\ n >= 2
    /\ i >= 1
    /\ i + n - 1 <= Len(s)
    /\ \A j \in i..(i + n - 1) : s[j] = ":"
    /\ i = 1 \/ s[i - 1] # ":"
    /\ i + n - 1 = Len(s) \/ s[i + n] # ":"
    /\ BraceDepth(s, i) = 0

HasTripleRun(s) == \E i \in 1..Len(s) : IsSeparatorRun(s, i, 3)

\* C10: the reversed-card flag returned by splitIntoFields is true whenever the
\* body holds a separator run of exactly three colons at brace depth 0, whatever
\* other separator runs precede or follow it, and false when no separator run has
\* exactly three colons; `a:::a` gives [a, a] with the flag set and `a::a` the
\* same fields without it.
C10_ReversedIffSomeTripleRun ==
    sfState = "done" =>
        /\ sfResult.reverseCard = HasTripleRun(sfBody)
        /\ sfBody = <<"a", ":", ":", ":", "a">> =>
               sfResult = [fields |-> << <<"a">>, <<"a">> >>, reverseCard |-> TRUE]
        /\ sfBody = <<"a", ":", ":", "a">> =>
               sfResult = [fields |-> << <<"a">>, <<"a">> >>, reverseCard |-> FALSE]

\* the opening braces in front of character i that are not closed yet; a
\* closing brace without an open one closes nothing
RECURSIVE OpenBraces(_, _)
OpenBraces(s, i) ==
    IF i <= 1 THEN 0
    ELSE IF s[i - 1] = "{" THEN OpenBraces(s, i - 1) + 1
    ELSE IF s[i - 1] = "}" /\ OpenBraces(s, i - 1) > 0 THEN OpenBraces(s, i - 1) - 1
    ELSE OpenBraces(s, i - 1)

\* a maximal run of two or more colons starts at character i
IsColonRun(s, i) ==
    /\ i + 1 <= Len(s)
    /\ s[i] = ":" /\ s[i + 1] = ":"
    /\ i = 1 \/ s[i - 1] # ":"

\* the fields of s when the colon runs in front of which no brace is open,
\* and only these, end a field: the text between them, trimmed, without an
\* empty last one
RECURSIVE FieldsFrom(_, _, _)
FieldsFrom(s, i, cur) ==
    IF i > Len(s) THEN (IF cur # <<>> THEN <<trim(cur)>> ELSE <<>>)
    ELSE IF IsColonRun(s, i) /\ OpenBraces(s, i) = 0
    THEN <<trim(cur)>> \o FieldsFrom(s, i + colonCount(s, i), <<>>)
    ELSE IF s[i] = ":" /\ OpenBraces(s, i) # 0
    THEN FieldsFrom(s, i + colonCount(s, i), cur \o SubSeq(s, i, i + colonCount(s, i) - 1))
    ELSE FieldsFrom(s, i + 1, Append(cur, s[i]))

\* C11: for every card body, bodies with unmatched closing braces included,
\* a run of two or more colons ends the current field exactly when every
\* opening brace before it has been closed, and a :: inside an open brace
\* group never splits; {a::b}::c splits into [{a::b}, c].
C11_SplitsExactlyAtDepthZero ==
    sfState = "done" =>
        /\ sfResult.fields = FieldsFrom(sfBody, 1, <<>>)
        /\ sfBody = BraceGroupBody =>
               sfResult.fields = << <<"{", "a", ":", ":", "b", "}">>, <<"c">> >>

\* What the code computes instead (reverseCard is assigned, not or-ed, at every
\* separator): the flag says whether the LAST separator run has three colons.
LastRunIsTriple(s) ==
    \E i \in 1..Len(s) :
        /\ IsSeparatorRun(s, i, 3)
        /\ \A j \in (i + 1)..Len(s) : \A n \in 2..Len(s) : ~IsSeparatorRun(s, j, n)

ReversedIffLastRunTriple ==
    sfState = "done" => sfResult.reverseCard = LastRunIsTriple(sfBody)

\* the length of the separator run starting at character i, 0 when none does
SeparatorRunAt(s, i) ==
    IF \E n \in 2..Len(s) : IsSeparatorRun(s, i, n)
    THEN CHOOSE n \in 2..Len(s) : IsSeparatorRun(s, i, n)
    ELSE 0

\* the fields when every separator run is one boundary: the texts between
\* the runs, trimmed, the text after the last run only when it is not empty
RECURSIVE FieldsBetweenRuns(_, _, _)
FieldsBetweenRuns(s, i, cur) ==
    IF i > Len(s) THEN (IF cur # <<>> THEN <<trim(cur)>> ELSE <<>>)
    ELSE IF SeparatorRunAt(s, i) > 0
    THEN <<trim(cur)>> \o FieldsBetweenRuns(s, i + SeparatorRunAt(s, i), <<>>)
    ELSE FieldsBetweenRuns(s, i + 1, Append(cur, s[i]))

\* the number of separator runs of s
SeparatorRuns(s) == Cardinality({i \in 1..Len(s) : SeparatorRunAt(s, i) > 0})

\* C29: every run of two or more colons at brace depth 0 is exactly one field
\* boundary: the fields are the texts between the runs, so no colon of a run
\* stands in a neighbouring field and no empty field comes from inside a run;
\* a body with k runs has k or k + 1 fields; a::::a splits into [a, a].
C29_OneBoundaryPerRun ==
    sfState = "done" =>
        /\ sfResult.fields = FieldsBetweenRuns(sfBody, 1, <<>>)
        /\ Len(sfResult.fields) \in {SeparatorRuns(sfBody), SeparatorRuns(sfBody) + 1}
        /\ sfBody = <<"a", ":", ":", ":", ":", "a">> =>
               sfResult.fields = << <<"a">>, <<"a">> >>

\* a::::a was split
C29_Witness ==
    /\ sfState = "done"
    /\ sfBody = <<"a", ":", ":", ":", ":", "a">>

(***************************************************************************)
(* Claims about getFlashcardBodies (checked under SpecBodies).             *)
(***************************************************************************)
\* line i (0-based) of the document is a fence: trimmed, it starts with three backticks
IsFenceLine(i) == startsWith(trim(gbLines[i + 1]), Fence)

\* the number of fence lines among the lines 0..i
FencesUpTo(i) == Cardinality({j \in 0..i : j < Len(gbLines) /\ IsFenceLine(j)})

\* a fenced code region: its opening fence o and its closing fence c
IsFencedRegion(o, c) ==
    /\ o < c
    /\ IsFenceLine(o) /\ IsFenceLine(c)
    /\ FencesUpTo(o) % 2 = 1
    /\ FencesUpTo(c) = FencesUpTo(o) + 1

\* the document is made of fences, plain text and cards only
OnlyFencesTextAndCards == \A k \in DOMAIN gbLines : gbLines[k] \in {Fence, TextLine, CardLine}

\* C17: while a fenced code region is open (an odd number of fence lines so
\* far) getFlashcardBodies closes no block: no block starts or ends inside
\* an open region, so a region is never split over blocks, and in a document
\* of fences, text and cards a region holding a card is one block's part,
\* the block ending at the closing fence; the document of a fence, a card
\* and a fence is the one block of lines 0..2.
C17_NoBlockClosedInsideFence ==
    gbState = "done" =>
        /\ \A k \in DOMAIN gbResult :
               /\ FencesUpTo(gbResult[k].endLine) % 2 = 0
               /\ FencesUpTo(gbResult[k].startLine - 1) % 2 = 0
        /\ \A o, c \in 0..(Len(gbLines) - 1) : IsFencedRegion(o, c) =>
               /\ \A k \in DOMAIN gbResult :
                      \/ gbResult[k].startLine <= o /\ c <= gbResult[k].endLine
                      \/ gbResult[k].endLine < o
                      \/ c < gbResult[k].startLine
               /\ OnlyFencesTextAndCards /\ (\E j \in (o + 1)..(c - 1) : gbLines[j + 1] = CardLine) =>
                      \E k \in DOMAIN gbResult :
                          gbResult[k].startLine <= o /\ gbResult[k].endLine = c
        /\ gbLines = <<Fence, CardLine, Fence>> =>
               gbResult = << [body |-> joinLines(gbLines), startLine |-> 0, endLine |-> 2] >>

\* a fence, a card and a fence, none ending with a colon, came back as one block
C17_Witness ==
    /\ gbState = "done"
    /\ gbLines = <<Fence, CardLine, Fence>>
    /\ Len(gbResult) = 1

\* C20: the blocks getFlashcardBodies returns have startLine <= endLine, both
\* 0-based indices of lines of the document, and each block starts after the
\* end of the block before it.
C20_BlocksOrderedAndDisjoint ==
    gbState = "done" =>
        /\ \A k \in DOMAIN gbResult :
               /\ 0 <= gbResult[k].startLine
               /\ gbResult[k].startLine <= gbResult[k].endLine
               /\ gbResult[k].endLine < Len(splitLines(joinLines(gbLines)))
        /\ \A k \in 1..(Len(gbResult) - 1) :
               gbResult[k + 1].startLine > gbResult[k].endLine

\* a document came back as two blocks, the second of more than one line
C20_Witness ==
    /\ gbState = "done"
    /\ Len(gbResult) = 2
    /\ gbResult[2].startLine < gbResult[2].endLine

(***************************************************************************)
(* Claims about deleteMarkedFlashcards (checked under SpecDelete).         *)
(***************************************************************************)
\* the run of ankify has left the removal loop of deleteMarkedFlashcards
MarkersRemoved(r) == CallsOf(r, "deleteNotes", "deleteMarkedFlashcards") # {}

\* C18: for the document text delete ^123 followed by a newline the deletion
\* scanner collects exactly one id, 123, and once its span is removed the
\* text of the document is the empty string.
C18_DeleteLeavesEmptyText ==
    runs[1].docAtStart = DeleteOnlyDoc /\ MarkersRemoved(1) =>
        /\ runs[1].noteIds = <<123>>
        /\ getValue(doc) = <<>>

\* the text s without the characters of the spans: character i (1-based)
\* stays when no span [start, end) of 0-based offsets holds it
RECURSIVE withoutSpans(_, _, _)
withoutSpans(s, portions, i) ==
    IF i > Len(s) THEN <<>>
    ELSE IF \E k \in DOMAIN portions : portions[k].start < i /\ i <= portions[k].end
    THEN withoutSpans(s, portions, i + 1)
    ELSE <<s[i]>> \o withoutSpans(s, portions, i + 1)

DeleteRequest == [action |-> "deleteNotes", from |-> "deleteMarkedFlashcards"]

\* the step of run 1 from the call of deleteMarkedFlashcards to its await or return
C19_ScanStep ==
    LET portions == deleteMatches(getValue(doc), 1)
    IN  IF portions = <<>>
        THEN /\ doc' = doc
             /\ runs'[1].calls = runs[1].calls
             /\ runs'[1].pc = "done" /\ runs'[1].result = "counts"
             /\ runs'[1].cardsDeleted = 0
        ELSE /\ getValue(doc') = withoutSpans(getValue(doc), portions, 1)
             /\ runs'[1].noteIds = [k \in DOMAIN portions |-> portions[k].noteId]
             /\ runs'[1].calls = Append(runs[1].calls, DeleteRequest)
             /\ runs'[1].pc = "deleteNotes"

\* the step of run 1 from the answer to deleteNotes to the return of ankify
C19_ReturnStep ==
    /\ doc' = doc
    /\ runs'[1].calls = runs[1].calls
    /\ runs'[1].pc = "done" /\ runs'[1].result = "counts"
    /\ runs'[1].cardsDeleted = Len(runs[1].noteIds)

\* C19: deleteMarkedFlashcards cuts the matched spans out of the document from
\* the last to the first, so that the text is the one it read without the
\* spans, and only then sends one deleteNotes request with all the ids; with
\* no match it edits nothing, sends no request and returns 0, otherwise it
\* returns the number of ids.
C19_RemovalsThenOneDelete ==
    [][/\ runs[1].pc = "synced" /\ runs'[1].pc # "synced" => C19_ScanStep
       /\ runs[1].pc = "deleteNotes" /\ runs'[1].pc # "deleteNotes" => C19_ReturnStep]_vars

(***************************************************************************)
(* More claims about getFlashcardBodies (checked under SpecBodies).        *)
(***************************************************************************)
\* line i (0-based) is a math fence: trimmed, it starts with $$ and not with a fence
IsMathFenceLine(i) ==
    ~IsFenceLine(i) /\ startsWith(trim(gbLines[i + 1]), MathFence)

\* the number of math fence lines among the lines 0..i
MathFencesUpTo(i) == Cardinality({j \in 0..i : j < Len(gbLines) /\ IsMathFenceLine(j)})

\* a continuation condition holds at line i (0-based) of the document
ContinuationAt(i) ==
    \/ endsWith(trim(gbLines[i + 1]), <<":">>)
    \/ FencesUpTo(i) % 2 = 1
    \/ MathFencesUpTo(i) % 2 = 1
    \/ /\ i + 2 <= Len(gbLines)
       /\ LET t == trim(gbLines[i + 2])
          IN  \/ startsWith(t, <<":", ":">>)
              \/ startsWith(t, <<"^">>)
              \/ startsWith(t, <<"-", " ">>)
              \/ \E d \in 1..Len(t) :
                     /\ \A j \in 1..d : t[j] \in {"0", "1", "2", "3", "4", "5", "6", "7", "8", "9"}
                     /\ d + 2 <= Len(t) /\ t[d + 1] = "." /\ IsWS(t[d + 2])

\* C30: a block ends at line i only if no continuation condition holds at i
\* (no colon at the end of the trimmed line, no code or math fence open, the
\* next line no ::, ^, "- " or numbered line); a block is the whole run of
\* lines buffered since the line after the last close, so every line between
\* its start and its end went on; and when a continuation condition holds at
\* the last line of the document, the lines buffered then are in no block.
C30_BlocksEndWhereNothingContinues ==
    gbState = "done" =>
        /\ \A k \in DOMAIN gbResult :
               /\ ~ContinuationAt(gbResult[k].endLine)
               /\ \A i \in gbResult[k].startLine..(gbResult[k].endLine - 1) : ContinuationAt(i)
               /\ gbResult[k].startLine > 0 => ~ContinuationAt(gbResult[k].startLine - 1)
               /\ gbResult[k].body =
                      joinLines(SubSeq(gbLines, gbResult[k].startLine + 1, gbResult[k].endLine + 1))
        /\ ContinuationAt(Len(gbLines) - 1) =>
               \A k \in DOMAIN gbResult :
                   /\ gbResult[k].endLine < Len(gbLines) - 1
                   /\ \A i \in 0..(Len(gbLines) - 1) :
                          (\A j \in i..(Len(gbLines) - 1) : ContinuationAt(j)) =>
                              gbResult[k].endLine < i

\* a card was emitted, and the card after it, buffered behind a fence that
\* is still open when the document ends, was not
C30_Witness ==
    /\ gbState = "done"
    /\ gbLines = <<CardLine, Fence, CardLine>>
    /\ Len(gbResult) = 1

(***************************************************************************)
(* Claims about getBlockSequence (checked under SpecBlocks).               *)
(***************************************************************************)
\* the offset at which segment k of the result starts
RECURSIVE SegmentStart(_)
SegmentStart(k) == IF k <= 1 THEN 0 ELSE SegmentStart(k - 1) + Len(bsResult[k - 1].content)

\* the contents of the segments from k on, one after the other
RECURSIVE ContentsFrom(_)
ContentsFrom(k) == IF k > Len(bsResult) THEN <<>> ELSE bsResult[k].content \o ContentsFrom(k + 1)

\* the spans handed in, each with the type of its list
GivenSpans ==
    {[indices |-> bsInput.code[k], blockType |-> 1] : k \in DOMAIN bsInput.code}
    \cup {[indices |-> bsInput.latex[k], blockType |-> 2] : k \in DOMAIN bsInput.latex}

\* the span is a segment of the result
IsSegment(sp) ==
    \E k \in DOMAIN bsResult :
        /\ bsResult[k].blockType = sp.blockType
        /\ SegmentStart(k) = sp.indices.start
        /\ SegmentStart(k) + Len(bsResult[k].content) = sp.indices.end

Overlap(x, y) == x.indices.start < y.indices.end /\ y.indices.start < x.indices.end

\* the segments are a partition of the text: none is empty, one after the
\* other they are the text, no two plain segments touch, and every code or
\* math segment is a span that was handed in
IsPartition ==
    /\ \A k \in DOMAIN bsResult : bsResult[k].content # <<>>
    /\ ContentsFrom(1) = bsInput.content
    /\ \A k \in DOMAIN bsResult :
           /\ bsResult[k].blockType \in {0, 1, 2}
           /\ bsResult[k].blockType # 0 =>
                  \E sp \in GivenSpans : sp.blockType = bsResult[k].blockType
                      /\ SegmentStart(k) = sp.indices.start
                      /\ SegmentStart(k) + Len(bsResult[k].content) = sp.indices.end
           /\ k > 1 /\ bsResult[k].blockType = 0 => bsResult[k - 1].blockType # 0

HashesOf(i) == charRun(hlInput.lines[i + 1], 1, "#")

\* line i is a header: one to nine #, then white space
IsHeader(i) ==
    /\ HashesOf(i) \in 1..9
    /\ HashesOf(i) < Len(hlInput.lines[i + 1])
    /\ IsWS(hlInput.lines[i + 1][HashesOf(i) + 1])

\* the headers at or before line `from` of a level lower than `below`
HeadersBelow(from, below) == {i \in 0..from : IsHeader(i) /\ HashesOf(i) < below}

\* the nearest of them
Nearest(S) == CHOOSE i \in S : \A j \in S : j <= i

\* the lines of the headers to return: the nearest header at or before
\* `from`, then again and again the nearest earlier header of a lower level
RECURSIVE HeaderChain(_, _)
HeaderChain(from, below) ==
    IF from < 0 \/ HeadersBelow(from, below) = {} THEN <<>>
    ELSE LET i == Nearest(HeadersBelow(from, below))
         IN  <<i>> \o HeaderChain(i - 1, HashesOf(i))

NothingUsable ==
    \/ ymInput.loaded.kind \in {"unused", "throws", "undefined", "null", "string", "number"}
    \/ /\ ymInput.loaded.kind = "mapping"
       /\ ymInput.loaded.deck = JsUndefined /\ ymInput.loaded.tags = JsUndefined

\* C25: whatever yaml.load does with the front matter (throws, returns
\* nothing or null, a scalar, a mapping without deck or tags),
\* extractYamlProperties does not fail: it returns no deck and an empty tag
\* list, and ankify goes on with the default deck.
C25_FrontMatterNeverFatal ==
    /\ ymState = "done" => ymResult.kind = "returned"
    /\ ymState = "done" /\ NothingUsable =>
           ymResult = [kind |-> "returned", deck |-> JsUndefined, tags |-> <<>>]
    /\ ymState # "rejected"
    /\ ymState = "deck" /\ NothingUsable => ymResult.deck = DefaultDeck

(***************************************************************************)
(* Claims about makeFlashcards (checked under SpecCards).                  *)
(***************************************************************************)
\* the body of the block of the document
BlockBody == mfBlock.bodies[1].body

\* the body holds a field separator: a run of two or more colons at brace
\* depth 0
HasSeparator(s) == \E i \in 1..Len(s) : \E n \in 2..Len(s) : IsSeparatorRun(s, i, n)

\* a record was made for the block
Emitted == mfResult.flashcardBlocks # <<>>

\* the record's type says its first field holds a canonical cloze span
EmittedCloze == Emitted /\ mfResult.flashcardBlocks[1].flashcard.type = "Cloze"

\* C22: a block whose first field holds no canonical cloze span gives a
\* record only if its body holds a field separator, a run of two or more
\* colons at brace depth 0; a block with neither gives no record.
C22_NoClozeNoSeparatorNoCard ==
    mfState = "cards" /\ Emitted /\ ~EmittedCloze => HasSeparator(BlockBody)

\* u is a canonical cloze span: {{c, digits, ::, a text without }, }}
IsCanonicalCloze(u) ==
    \E d \in 1..Len(u) :
        /\ Len(u) >= d + 8
        /\ SubSeq(u, 1, 3) = <<"{", "{", "c">>
        /\ \A j \in 4..(3 + d) : IsDigit(u[j])
        /\ SubSeq(u, 4 + d, 5 + d) = <<":", ":">>
        /\ \A j \in (6 + d)..(Len(u) - 2) : u[j] # "}"
        /\ SubSeq(u, Len(u) - 1, Len(u)) = <<"}", "}">>

\* s holds a canonical cloze span
HoldsCanonicalCloze(s) ==
    \E i \in 1..Len(s) : \E j \in i..Len(s) : IsCanonicalCloze(SubSeq(s, i, j))

\* the first field of a record, whatever its name
FirstFieldOf(f) ==
    IF "Text" \in DOMAIN f.fields THEN f.fields["Text"]
    ELSE IF "Front" \in DOMAIN f.fields THEN f.fields["Front"]
    ELSE <<>>

\* the reversed flag splitIntoFields returned for the block
ReversedFlag == splitIntoFields(removeIdMatch(BlockBody)).reverseCard

\* C23: every record handed to the store has exactly the field names of its
\* type: Text, Back Extra and Source for a Cloze record, Front, Back and
\* Source for a Basic or Reversed record; the type is Cloze iff the first field
\* holds a canonical cloze span, else Reversed iff the reversed flag is set,
\* else Basic, and the template name is ObsidianCloze, ObsidianReversed or
\* ObsidianBasic accordingly.
C23_FieldNamesAndTemplateOfType ==
    mfState \in {"cards", "written", "updated"} =>
        \A k \in DOMAIN mfResult.flashcardBlocks :
            LET f == mfResult.flashcardBlocks[k].flashcard
            IN  /\ f.type \in {"Cloze", "Reversed", "Basic"}
                /\ f.type = "Cloze" => DOMAIN f.fields = {"Text", "Back Extra", "Source"}
                /\ f.type # "Cloze" => DOMAIN f.fields = {"Front", "Back", "Source"}
                /\ f.fields["Source"] = SourceLink
                /\ f.type = "Cloze" <=> HoldsCanonicalCloze(FirstFieldOf(f))
                /\ f.type = "Reversed" <=> ~HoldsCanonicalCloze(FirstFieldOf(f)) /\ ReversedFlag
                /\ f.type = "Cloze" => f.modelName = "ObsidianCloze"
                /\ f.type = "Reversed" => f.modelName = "ObsidianReversed"
                /\ f.type = "Basic" => f.modelName = "ObsidianBasic"
                /\ BlockBody = <<"{", "a", "}">> =>
                       /\ f.type = "Cloze"
                       /\ f.fields["Text"] = <<"{", "{", "c", "1", ":", ":", "a", "}", "}">>

\* the record of :::a is Reversed and was sent as a new note
C23_Witness ==
    /\ mfState = "written"
    /\ BlockBody = <<":", ":", ":", "a">>
    /\ mfResult.flashcardBlocks[1].flashcard.type = "Reversed"
    /\ mfResult.flashcardBlocks[1].flashcard.modelName = "ObsidianReversed"
    /\ DOMAIN mfResult.flashcardBlocks[1].flashcard.fields = {"Front", "Back", "Source"}

\* line l is an identifier line: ^ and digits, blanks around them allowed
IsIdentifierLine(l) ==
    /\ Len(trim(l)) >= 2
    /\ trim(l)[1] = "^"
    /\ \A j \in 2..Len(trim(l)) : IsDigit(trim(l)[j])

\* the block holds an identifier line
BlockHasIdentifierLine == \E k \in DOMAIN splitLines(BlockBody) : IsIdentifierLine(splitLines(BlockBody)[k])

\* C28: a record carries an id only if its block holds an identifier line, a
\* line that is nothing but ^ and digits; a ^<digits> token inside the text
\* of the card is not taken as the id and is not rewritten by the write-back,
\* which leaves the line of the card's text as it was.
C28_IdOnlyFromIdentifierLine ==
    /\ mfState = "cards" =>
           \A k \in DOMAIN mfResult.flashcardBlocks :
               mfResult.flashcardBlocks[k].flashcard.id # Undefined => BlockHasIdentifierLine
    /\ mfState = "written" => mfResult.doc[1] = mfBlock.doc[1]

(***************************************************************************)
(* Claims about the partition of the records (checked under Spec).         *)
(***************************************************************************)
\* the elements of a sequence
RangeOf(s) == {s[i] : i \in DOMAIN s}

\* a sequence of record indices in document order, none twice
InDocumentOrder(s) == \A i \in 1..(Len(s) - 1) : s[i] < s[i + 1]

\* the lookup loop of run r has ended
LookupsEnded(r) ==
    \/ runs[r].pc \in {"addNotes", "changeDeckInfo", "changeDeck", "multi", "synced", "deleteNotes"}
    \/ runs[r].result = "counts"

\* syncFlashcardsWithAnki of run r has returned
PassEnded(r) == runs[r].pc \in {"synced", "deleteNotes"} \/ runs[r].result = "counts"

\* what holds of New and Existing in every state of a pass
C27_Partition ==
    LET run   == runs[1]
        new   == RangeOf(run.newCards)
        old   == RangeOf(run.existingCards)
        cards == DOMAIN run.flashcardBlocks
        multi == CallsOf(1, "multi", "updateNotesInAnki")
        parsed == ParsedCards(1)
    IN  /\ InDocumentOrder(run.newCards) /\ InDocumentOrder(run.existingCards)
        /\ new \cap old = {}
        /\ new \cup old \subseteq cards
        /\ run.pc = "notesInfo" => new \cup old = 1..(run.cursor - 1)
        /\ LookupsEnded(1) => new \cup old = cards
        /\ \A k \in old : parsed[k].flashcard.id # Undefined
        /\ Cardinality(Creates(1)) <= 1
        /\ Cardinality(multi) <= 1
        /\ Creates(1) # {} => new # {}
        /\ multi # {} => old # {}
        /\ PassEnded(1) => /\ new # {} <=> Creates(1) # {}
                           /\ old # {} <=> multi # {}
        /\ run.newIds # <<>> => Len(run.newIds) = Len(run.newCards)
        /\ InDocumentOrder([k \in DOMAIN run.edits |-> run.edits[k].card])
        /\ \A k \in DOMAIN run.edits : run.edits[k].card \in new
        /\ run.updated \subseteq {parsed[k].flashcard.id : k \in old}

\* the step of run 1 on the answer to the lookup of the record at the cursor
C27_LookupStep ==
    LET c  == runs[1].cursor
        id == runs[1].flashcardBlocks[c].flashcard.id
    IN  /\ id # Undefined
        /\ runs'[1].existingCards # runs[1].existingCards =>
               /\ id \in notes
               /\ runs'[1].existingCards = Append(runs[1].existingCards, c)
               /\ c \notin RangeOf(runs'[1].newCards)
        /\ id \notin notes /\ runs'[1].result # "rejected" =>
               /\ c \in RangeOf(runs'[1].newCards)
               /\ runs'[1].existingCards = runs[1].existingCards
        /\ id \in notes /\ runs[1].allOk /\ runs'[1].allOk =>
               runs'[1].existingCards = Append(runs[1].existingCards, c)

\* C27: in a pass every record is put in exactly one of New and Existing,
\* Existing iff it has an id and the lookup finds the id in the store; the
\* pass sends at most one create, for the New records in document order, and
\* at most one update, for the Existing ones; no record is created and
\* updated in the same pass.
C27_EachRecordNewOrExisting ==
    /\ []C27_Partition
    /\ [][runs[1].pc = "notesInfo" /\ runs'[1] # runs[1] => C27_LookupStep]_vars

\* a pass that created one record and updated another
C27_Witness ==
    /\ runs[1].pc = "synced"
    /\ runs[1].newCards # <<>> /\ runs[1].existingCards # <<>>
    /\ Cardinality(Creates(1)) = 1
    /\ Cardinality(CallsOf(1, "multi", "updateNotesInAnki")) = 1
    /\ runs[1].updated # {}
    /\ runs[1].edits # <<>>

(***************************************************************************)
(* Claims about two overlapping runs (checked under SpecOverlap).          *)
(***************************************************************************)
\* both runs have read the text, and read the same text: neither read it
\* after the other had written an identifier line
ReadSameText == runs[1].content # <<>> /\ runs[2].content = runs[1].content

\* the records of the text both runs read that have no id
IdLessOf(parsed) == {k \in DOMAIN parsed : parsed[k].flashcard.id = Undefined}

IdLess == IdLessOf(ParsedCards(1))

\* the write-backs of run r for record k
WriteBacksOf(r, k) == {i \in DOMAIN runs[r].edits : runs[r].edits[i].card = k}

\* the id run r got for record k, once addNotes has answered
NewIdOf(r, k) ==
    runs[r].newIds[CHOOSE i \in DOMAIN runs[r].newCards : runs[r].newCards[i] = k]

\* C26: nothing serializes the passes.  When the second run has read the
\* text before the first wrote its ids back, both runs put the same id-less
\* block with the New records, each sends a create for it and gets an id of
\* its own, and each inserts an identifier line at the line it computes from
\* its own snapshot (the block's endLine + 1 + the lines it has inserted
\* itself), whatever the other run has inserted meanwhile.
C26_OverlappingRunsBothCreate ==
    ReadSameText =>
        LET parsed == ParsedCards(1)
            idLess == IdLessOf(parsed)
        IN
        \A k \in idLess : \A r \in RunIds :
            /\ LookupsEnded(r) =>
                   /\ k \in RangeOf(runs[r].newCards)
                   /\ Cardinality(Creates(r)) = 1
            /\ runs[r].created =>
                   /\ Cardinality(WriteBacksOf(r, k)) = 1
                   /\ \A i \in WriteBacksOf(r, k) :
                          /\ runs[r].edits[i].kind = "insert"
                          /\ runs[r].edits[i].newId = NewIdOf(r, k)
                          /\ runs[r].edits[i].line
                                 = parsed[k].endLine + 1
                                   + Cardinality({j \in idLess : j < k})
                   /\ NewIdOf(r, k) \in notes
                   /\ IdLine(NewIdOf(r, k)) \in RangeOf(doc)
            /\ runs[1].created /\ runs[2].created => NewIdOf(1, k) # NewIdOf(2, k)

\* both runs have created a note for the one card of the document and each
\* has written its identifier line
C26_Witness ==
    /\ ReadSameText
    /\ runs[1].content = CardLine
    /\ runs[1].pc = "done" /\ runs[2].pc = "done"
    /\ IdLess = {1}
    /\ notes = {FirstNewId, FirstNewId + 1}
    /\ IdLine(FirstNewId) \in RangeOf(doc) /\ IdLine(FirstNewId + 1) \in RangeOf(doc)

=============================================================================
